---- MODULE Spec2Model ----
(***************************************************************************)
(* close-chat: the WebSocket transport (lib/ws), its publish/subscribe     *)
(* dispatcher, and the reconciliation store of context/AppContext.tsx.     *)
(*                                                                         *)
(* Everything runs on one cooperative event queue: every action below is   *)
(* one task of that queue (a call from the UI, a socket event, a timer     *)
(* callback, the continuation of an awaited data-access call).             *)
(***************************************************************************)
EXTENDS Integers, Sequences, FiniteSets, Bags, TLC

(***************************************************************************)
(* Bounds of the model                                                     *)
(***************************************************************************)
\* sockets the transport may create in one behaviour
MaxSockets == 4
\* sockets of one behaviour of the backoff specification (a single retry chain)
MaxChain == 9
\* handlers registered for one kind
MaxHandlers == 2
\* onWs calls for one kind, unsubscribed ones included
MaxRegs == 3
\* sockets of one behaviour of the dispatcher specification
MaxDispatchSockets == 2
\* sockets of one behaviour of the startup specification
StoreSockets == 2
\* messages the server stores
MaxPosts == 2
\* length of the rendered list beyond which the user sends nothing and no
\* notice of a failure or of a connection is appended
MaxMessages == 3
\* data-access calls in flight
MaxCalls == 2
\* history fetches in flight in the specification of sending
SendCalls == 1
\* 'message' frames written by the client and not yet read by the server
MaxSent == 1

(***************************************************************************)
(* Program constants                                                       *)
(***************************************************************************)
MAX_RECONNECT_DELAY == 30000
HISTORY_LIMIT == 50
BASE_RECONNECT_DELAY == 1000

\* WsMessageType, plus "ping" standing for any kind no store handler listens to
Kinds == {"message", "connected", "presence", "status-changed",
          "user-joined", "user-left", "channel_update", "ping"}
Wildcard == "*"
HandlerKeys == Kinds \cup {Wildcard}

\* handler functions a caller of onWs may register besides the store's own:
\* one that returns normally and one that throws
TestHandlers == {"hOk", "hThrow"}
\* and, for the registry: one that returns normally and one that unsubscribes
\* itself when it is called
OnceHandlers == {"hOk", "hOnce"}
\* and, for the order of a dispatch: two that return normally
PlainHandlers == {"hOk", "hLog"}

\* the local user and another user
Self == 1
Other == 2
Username == <<"me", "bob">>

VARIABLES
  \* ---- lib/ws: the transport and the dispatcher
  socks,             \* readyState of every WebSocket created so far, by creation order
  ws,                \* _ws: index into socks, 0 = null
  reconnectTimer,    \* _reconnectTimer: a timer handle, 0 = null
  timers,            \* handles of the timeouts that are pending in the event loop
  reconnectAttempts, \* _reconnectAttempts
  intentionalClose,  \* _intentionalClose
  handlers,          \* _handlers: kind -> sequence of handler functions
  \* ---- context/AppContext.tsx: the store
  currentUser,       \* currentUser / currentUserRef: a user id, 0 = null
  wsSetup,           \* wsSetupRef.current
  channels,          \* channels / channelsRef
  activeChannelId,   \* activeChannelId / activeChannelIdRef, 0 = null
  messages,          \* the rendered message list
  allUsers,          \* allUsers
  channelMembers,    \* channelMembers: the member list last fetched
  membersOf,         \* the channel channelMembers was fetched for (0: none); the code
                     \* keeps no such id
  calls,             \* data-access calls awaiting their result
  \* ---- the server and the wire
  sent,              \* 'message' frames written by sendWs, not yet read by the server
  inbox,             \* frames written by the server, not yet delivered to onmessage
  srvLog,            \* the server's stored messages, oldest first
  srvUsers,          \* the server's user listing, with each user's status
  \* ---- observation of the run (not program state)
  lastDelay,         \* delay passed to the last setTimeout of scheduleReconnect
  retryN,            \* retries scheduled since the last open event
  byDisconnect,      \* sockets on which disconnectWs() called close()
  invoked,           \* handlers invoked by the last emit, in order
  issued,            \* fire-and-forget data-access calls (result ignored) the last task made
  wrote,             \* frames the last task passed to _ws.send
  escaped,           \* "none", or the callback an exception of the last emit escaped into
  regs,              \* per key, every onWs call so far in call order: the handler it
                     \* registered and how often its unsubscribe closure was called
  last               \* the last task that ran

transportVars == <<socks, ws, reconnectTimer, timers, reconnectAttempts, intentionalClose>>
memberVars == <<channelMembers, membersOf>>
storeVars == <<currentUser, wsSetup, channels, activeChannelId, messages, allUsers, calls,
               memberVars>>
serverVars == <<inbox, srvLog, srvUsers>>
ghostVars == <<lastDelay, retryN, byDisconnect>>
obsVars == <<invoked, issued, wrote, escaped>>
\* a task that dispatches nothing, makes no fire-and-forget call and writes no frame
NoObs == invoked' = <<>> /\ issued' = <<>> /\ wrote' = <<>> /\ escaped' = "none"
vars == <<transportVars, handlers, storeVars, sent, serverVars, ghostVars, obsVars, regs, last>>

Min(a, b) == IF a < b THEN a ELSE b

RECURSIVE Pow2(_)
Pow2(n) == IF n = 0 THEN 1 ELSE 2 * Pow2(n - 1)

RECURSIVE Reverse(_)
Reverse(q) == IF q = <<>> THEN <<>> ELSE Append(Reverse(Tail(q)), Head(q))

RemoveAt(q, i) == SubSeq(q, 1, i - 1) \o SubSeq(q, i + 1, Len(q))

\* how often x occurs in the sequence q
Count(x, q) == Cardinality({i \in DOMAIN q : q[i] = x})

Live(s) == socks[s] \in {"CONNECTING", "OPEN"}
LiveSockets == {s \in 1..Len(socks) : Live(s)}

\* the record of the last task: its name, two numbers and a string (kind or text)
Op(name, a, b) == [op |-> name, a |-> a, b |-> b, k |-> ""]
OpK(name, a, k) == [op |-> name, a |-> a, b |-> 0, k |-> k]

(***************************************************************************)
(* The part of the state a handler can touch, threaded through a dispatch. *)
(* wsOpen is isWsConnected() as the handlers of this dispatch see it.      *)
(***************************************************************************)
Cur(open) ==
  [handlers |-> handlers, messages |-> messages, channels |-> channels,
   allUsers |-> allUsers, sent |-> sent, calls |-> calls,
   wsOpen |-> open, invoked |-> <<>>, issued |-> <<>>, wrote |-> <<>>, thrown |-> FALSE,
   regs |-> regs]

Commit(S) ==
  /\ handlers' = S.handlers
  /\ regs' = S.regs
  /\ messages' = S.messages
  /\ channels' = S.channels
  /\ allUsers' = S.allUsers
  /\ sent' = S.sent
  /\ calls' = S.calls
  /\ invoked' = S.invoked
  /\ issued' = S.issued
  /\ wrote' = S.wrote

\* isWsConnected()
isWsConnected == IF ws = 0 THEN FALSE ELSE socks[ws] = "OPEN"

\* sendWs writing the frame whatever the state of the socket
sendWsAlways(msg, S) ==
  [S EXCEPT !.wrote = Append(@, msg),
            !.sent = IF msg.type = "message" THEN Append(@, msg) ELSE @]

\* sendWs(msg): writes the frame only when the held socket is OPEN.  The
\* server's reading of a frame other than 'message' changes nothing here, so
\* only 'message' frames are kept as being on their way to the server.
sendWs(msg, S) ==
  IF S.wsOpen
    THEN [S EXCEPT !.wrote = Append(@, msg),
                   !.sent = IF msg.type = "message" THEN Append(@, msg) ELSE @]
    ELSE S

(***************************************************************************)
(* Frames.  An inbound frame is the text handed to onmessage: json says    *)
(* what JSON.parse makes of it ("bad": throws, "null": the value null,     *)
(* "obj": an object); the other fields are the object's properties, with   *)
(* "" / 0 standing for an absent property.                                 *)
(***************************************************************************)
BlankFrame ==
  [json |-> "obj", type |-> "", channelId |-> 0, senderId |-> 0, senderUsername |-> "",
   content |-> "", messageType |-> "", sid |-> 0, status |-> "", userId |-> 0,
   username |-> ""]

MessageFrame(ch, uid, uname, text, sid) ==
  [BlankFrame EXCEPT !.type = "message", !.channelId = ch, !.senderId = uid,
                     !.senderUsername = uname, !.content = text, !.sid = sid]

\* outbound frames (WsOutgoingMessage)
OutFrame(type, ch, text) == [type |-> type, channelId |-> ch, content |-> text]

\* a data-access call in flight: st is "pending" until the server has answered,
\* then "ok" (resp holds the result) or "fail"
Call(kind, ch, name) == [kind |-> kind, ch |-> ch, name |-> name, st |-> "pending", resp |-> <<>>]

(***************************************************************************)
(* Store: addMessage and the handlers initApp registers                    *)
(***************************************************************************)
NoLastMessage == [content |-> "", senderId |-> 0]

\* addMessage(username, text, type): sid is the server id of the message the
\* entry renders (0 for a local entry); the code keeps no such id
ChatMessage(username, text, type, sid) ==
  [username |-> username, text |-> text, type |-> type, sid |-> sid]

\* addMessage appending the entry twice
addMessageTwice(S, username, text, type, sid) ==
  [S EXCEPT !.messages = @ \o <<ChatMessage(username, text, type, sid),
                                 ChatMessage(username, text, type, sid)>>]

\* addMessage putting the entry at the front of the list
addMessageFirst(S, username, text, type, sid) ==
  [S EXCEPT !.messages = <<ChatMessage(username, text, type, sid)>> \o @]

addMessage(S, username, text, type, sid) ==
  [S EXCEPT !.messages = Append(@, ChatMessage(username, text, type, sid))]

\* BumpUnread with the preview left as it was
BumpUnreadKeepsPreview(c, data) ==
  [c EXCEPT !.unreadCount = c.unreadCount + 1]

\* the channel record a 'message' event for channelId leaves in the sidebar
BumpUnread(c, data) ==
  [c EXCEPT !.unreadCount = c.unreadCount + 1,
            !.lastMessage = [content |-> data.content, senderId |-> data.senderId]]

\* FromOther with the test on the sender dropped
FromOtherAlways(data) == TRUE

\* !user || senderId !== user.id
FromOther(data) == IF currentUser = 0 THEN TRUE ELSE data.senderId # currentUser

\* the 'message' handler counting the message as unread whatever its channel
OnMessageCountsAlways(data, S) ==
  LET senderUsername == IF data.senderUsername # "" THEN data.senderUsername ELSE "unknown"
      mtype == IF data.messageType # "" THEN data.messageType ELSE "user"
      S1 == IF data.channelId = activeChannelId
              THEN IF FromOther(data)
                     THEN addMessage(S, senderUsername, data.content, mtype, data.sid)
                     ELSE S
              ELSE S
  IN [S1 EXCEPT !.channels =
        [i \in DOMAIN S1.channels |->
           IF S1.channels[i].id = data.channelId
             THEN BumpUnread(S1.channels[i], data)
             ELSE S1.channels[i]]]

\* onWs('message', ...)
OnMessage(data, S) ==
  LET senderUsername == IF data.senderUsername # "" THEN data.senderUsername ELSE "unknown"
      mtype == IF data.messageType # "" THEN data.messageType ELSE "user"
      S1 == IF data.channelId = activeChannelId
              THEN IF FromOther(data)
                     THEN addMessage(S, senderUsername, data.content, mtype, data.sid)
                     ELSE S
              ELSE S
  IN IF data.channelId # activeChannelId
       THEN [S1 EXCEPT !.channels =
               [i \in DOMAIN S1.channels |->
                  IF S1.channels[i].id = data.channelId
                    THEN BumpUnread(S1.channels[i], data)
                    ELSE S1.channels[i]]]
       ELSE S1

\* onWs('presence', ...)
\* the 'presence' handler without its api.updateMe call
OnPresenceNoCall(data, S) ==
  IF data.status = "connected"
    THEN addMessage(S, "", "system: connected to mesh", "system", 0)
    ELSE S

OnPresence(data, S) ==
  IF data.status = "connected"
    THEN [addMessage(S, "", "system: connected to mesh", "system", 0)
            EXCEPT !.issued = Append(@, Call("updateMe", 0, "online")),
                   !.calls = @ (+) SetToBag({Call("updateMe", 0, "online")})]
    ELSE S

RECURSIVE JoinAll(_, _)
JoinAll(chs, S) ==
  IF chs = <<>> THEN S
  ELSE JoinAll(Tail(chs), sendWs(OutFrame("join-channel", Head(chs).id, ""), S))

\* OnConnected joining only the first channel of the list
OnConnectedJoinsFirst(data, S) ==
  IF channels = <<>> THEN S ELSE sendWs(OutFrame("join-channel", channels[1].id, ""), S)

\* onWs('connected', ...): channelsRef.current is the list as of the last render
OnConnected(data, S) == JoinAll(channels, S)

\* onWs('status-changed', ...)
\* the 'status-changed' handler giving the status to every user
OnStatusChangedAll(data, S) ==
  IF data.userId # 0
    THEN [S EXCEPT !.allUsers =
            [i \in DOMAIN S.allUsers |-> [S.allUsers[i] EXCEPT !.status = data.status]]]
    ELSE S

OnStatusChanged(data, S) ==
  IF data.userId # 0
    THEN [S EXCEPT !.allUsers =
            [i \in DOMAIN S.allUsers |->
               IF S.allUsers[i].id = data.userId
                 THEN [S.allUsers[i] EXCEPT !.status = data.status]
                 ELSE S.allUsers[i]]]
    ELSE S

\* onWs('user-joined', ...)
OnUserJoined(data, S) ==
  IF data.channelId = activeChannelId
    THEN addMessage(S, "", "system: @" \o (IF data.username # "" THEN data.username ELSE "unknown")
                           \o " joined", "system", 0)
    ELSE S

\* the 'user-left' handler without its comparison with the active channel
OnUserLeftAnyChannel(data, S) == addMessage(S, "", "system: user left", "system", 0)

\* onWs('user-left', ...)
OnUserLeft(data, S) ==
  IF data.channelId = activeChannelId
    THEN addMessage(S, "", "system: user left", "system", 0)
    ELSE S

\* the 'channel_update' handler without its loadChannels() call
OnChannelUpdateNoReload(data, S) == S

\* onWs('channel_update', ...): loadChannels() up to its await
OnChannelUpdate(data, S) == [S EXCEPT !.calls = @ (+) SetToBag({Call("loadChannels", 0, "")})]

\* the handler functions initApp registers, by kind
StoreHandler == [k \in Kinds \ {"ping"} |-> "store:" \o k]
StoreHandlers == {StoreHandler[k] : k \in Kinds \ {"ping"}}

(***************************************************************************)
(* Dispatcher: emit, onWs                                                  *)
(***************************************************************************)
\* arr.indexOf(handler): first index holding h, 0 when absent
IndexOf(arr, h) ==
  IF \E i \in DOMAIN arr : arr[i] = h
    THEN CHOOSE i \in DOMAIN arr : arr[i] = h /\ \A j \in 1..(i - 1) : arr[j] # h
    ELSE 0

\* the unsubscribe closure onWs(type, handler) returns
unsubscribe(type, h, S) ==
  LET idx == IndexOf(S.handlers[type], h)
  IN IF idx > 0 THEN [S EXCEPT !.handlers[type] = RemoveAt(@, idx)] ELSE S

\* calling the unsubscribe closure that the i-th onWs call for type returned
\* (calls = 2 stands for "more than once")
CallUnsubscribe(type, i, S) ==
  [unsubscribe(type, S.regs[type][i].h, S) EXCEPT
     !.regs[type][i].calls = IF @ = 0 THEN 1 ELSE 2]

\* the closure a handler function holds as its own: that of its earliest
\* registration for the key whose closure was not called yet, else of its
\* earliest registration (0: it holds none)
OwnClosure(key, h, S) ==
  LET mine == {i \in DOMAIN S.regs[key] : S.regs[key][i].h = h}
      fresh == {i \in mine : S.regs[key][i].calls = 0}
      first(I) == CHOOSE i \in I : \A j \in I : i <= j
  IN IF fresh # {} THEN first(fresh) ELSE IF mine # {} THEN first(mine) ELSE 0

\* what calling handler function h, registered for key, with envelope
\* msg = {type, data} does.  "hOnce" is a caller's handler that calls its own
\* unsubscribe closure, "hThrow" one that throws, any other returns normally
HandlerBody(key, h, data, S) ==
  CASE h = "store:message"        -> OnMessage(data, S)
    [] h = "store:presence"       -> OnPresence(data, S)
    [] h = "store:connected"      -> OnConnected(data, S)
    [] h = "store:status-changed" -> OnStatusChanged(data, S)
    [] h = "store:user-joined"    -> OnUserJoined(data, S)
    [] h = "store:user-left"      -> OnUserLeft(data, S)
    [] h = "store:channel_update" -> OnChannelUpdate(data, S)
    [] h = "hThrow"               -> [S EXCEPT !.thrown = TRUE]
    [] h = "hOnce"                -> IF OwnClosure(key, h, S) = 0 THEN S
                                     ELSE CallUnsubscribe(key, OwnClosure(key, h, S), S)
    [] OTHER                      -> S

Invoke(key, h, data, S) == HandlerBody(key, h, data, [S EXCEPT !.invoked = Append(@, h)])

\* arr.forEach((h) => h(msg)) over the array _handlers.get(key): the indices
\* 0..len-1 of the array as it was when forEach started, each visited only if
\* the (live) array still has it; an exception thrown by h ends the loop
RECURSIVE ForEachFrom(_, _, _, _, _)
ForEachFrom(key, k, len, data, S) ==
  IF k > len \/ S.thrown THEN S
  ELSE IF k > Len(S.handlers[key]) THEN ForEachFrom(key, k + 1, len, data, S)
  ELSE ForEachFrom(key, k + 1, len, data, Invoke(key, S.handlers[key][k], data, S))

ForEach(key, data, S) == ForEachFrom(key, 1, Len(S.handlers[key]), data, S)

\* emit(msg): the handlers of msg.type, then the wildcard handlers; a type
\* that is no key of the map (undefined included) has no handlers
emit(type, data, S) ==
  LET S1 == IF type \in HandlerKeys THEN ForEach(type, data, S) ELSE S
  IN IF S1.thrown THEN S1 ELSE ForEach(Wildcard, data, S1)

\* one onWs call as regs keeps it
Registration(h) == [h |-> h, calls |-> 0]

\* onWs putting the handler at the front of the array
onWsUnshift(type, h, S) ==
  [S EXCEPT !.handlers[type] = <<h>> \o @, !.regs[type] = Append(@, Registration(h))]

\* onWs(type, handler): push
onWs(type, h, S) ==
  [S EXCEPT !.handlers[type] = Append(@, h), !.regs[type] = Append(@, Registration(h))]

(***************************************************************************)
(* Transport: connectWs, its socket callbacks, disconnectWs, the timer     *)
(***************************************************************************)
\* the backoff without its cap
BackoffDelayNoCap(attempts) == BASE_RECONNECT_DELAY * Pow2(attempts)

\* delay of scheduleReconnect for the current attempt counter
BackoffDelay(attempts) == Min(BASE_RECONNECT_DELAY * Pow2(attempts), MAX_RECONNECT_DELAY)

\* the guard of connectWs: a held socket that is OPEN or CONNECTING
AlreadyConnected == IF ws = 0 THEN FALSE ELSE socks[ws] \in {"OPEN", "CONNECTING"}

\* connectWs() returning early only when the socket is OPEN
connectWsUnlessOpen ==
  IF isWsConnected
    THEN UNCHANGED <<socks, ws, intentionalClose, memberVars>>
    ELSE /\ intentionalClose' = FALSE
         /\ socks' = Append(socks, "CONNECTING")
         /\ ws' = Len(socks) + 1

\* connectWs()
connectWs ==
  IF AlreadyConnected
    THEN UNCHANGED <<socks, ws, intentionalClose, memberVars>>
    ELSE /\ intentionalClose' = FALSE
         /\ socks' = Append(socks, "CONNECTING")
         /\ ws' = Len(socks) + 1

\* scheduleReconnect(); the new timeout's handle is named after the socket
\* whose close event scheduled it
scheduleReconnect(s) ==
  /\ lastDelay' = BackoffDelay(reconnectAttempts)
  /\ reconnectAttempts' = reconnectAttempts + 1
  /\ reconnectTimer' = s
  /\ timers' = timers \cup {s}
  /\ retryN' = retryN + 1

\* a transport that gives up after two retries in a row
oncloseGivesUp(s) ==
  /\ ws' = 0
  /\ IF ~intentionalClose /\ reconnectAttempts < 2
       THEN scheduleReconnect(s)
       ELSE UNCHANGED <<lastDelay, reconnectAttempts, reconnectTimer, timers, retryN, memberVars>>

\* _ws.onclose of socket s
onclose(s) ==
  /\ ws' = 0
  /\ IF ~intentionalClose
       THEN scheduleReconnect(s)
       ELSE UNCHANGED <<lastDelay, reconnectAttempts, reconnectTimer, timers, retryN, memberVars>>

\* disconnectWs()
disconnectWs ==
  /\ intentionalClose' = TRUE
  /\ IF reconnectTimer # 0
       THEN /\ timers' = timers \ {reconnectTimer}
            /\ reconnectTimer' = 0
       ELSE UNCHANGED <<timers, reconnectTimer, memberVars>>
  /\ IF ws # 0
       THEN /\ socks' = [socks EXCEPT ![ws] = IF @ = "CLOSED" THEN @ ELSE "CLOSING"]
            /\ byDisconnect' = byDisconnect \cup {ws}
            /\ ws' = 0
       ELSE UNCHANGED <<socks, byDisconnect, ws, memberVars>>

(***************************************************************************)
(* Store: the operations of AppContext.tsx.  An async operation is one     *)
(* task up to its await and one task for its continuation.                 *)
(***************************************************************************)
\* ch.type === 'dm' ? (ch.recipient ? `@${ch.recipient.username}` : `@${ch.name}`) : `#${ch.name}`
DisplayName(ch) ==
  IF ch.type = "dm"
    THEN (IF ch.recipient # "" THEN "@" \o ch.recipient ELSE "@" \o ch.name)
    ELSE "#" \o ch.name

\* the leading notice switchToChannel builds before its await
SwitchNotice(name) == ChatMessage("", "system: switched to " \o name, "system", 0)

\* the entry switchToChannel renders for one message of the fetched page
RenderApiMessage(m) ==
  ChatMessage(IF m.senderUsername # "" THEN m.senderUsername ELSE "unknown",
              m.content, IF m.type # "" THEN m.type ELSE "user", m.id)

\* RenderHistory keeping the order of the page (newest first)
RenderHistoryNewestFirst(name, apiMessages) ==
  <<SwitchNotice(name)>> \o [i \in DOMAIN apiMessages |-> RenderApiMessage(apiMessages[i])]

\* the list switchToChannel renders when the page apiMessages arrived
RenderHistory(name, apiMessages) ==
  LET chronological == Reverse(apiMessages)
  IN <<SwitchNotice(name)>> \o [i \in DOMAIN chronological |-> RenderApiMessage(chronological[i])]

\* the list switchToChannel renders when the fetch failed
RenderHistoryFailure(name) ==
  <<SwitchNotice(name), ChatMessage("", "system: Failed to load messages", "system", 0)>>

\* switchToChannel without its setMessages([])
switchToChannelKeepsList(ch) ==
  /\ activeChannelId' = ch.id
  /\ LET S == IF isWsConnected
                THEN sendWs(OutFrame("join-channel", ch.id, ""), Cur(isWsConnected))
                ELSE Cur(isWsConnected)
     IN sent' = S.sent /\ wrote' = S.wrote
  /\ messages' = messages
  /\ issued' = <<Call("markChannelRead", ch.id, "")>>
  /\ calls' = calls (+) SetToBag({Call("getMessages", ch.id, DisplayName(ch))})

\* switchToChannel(ch), up to `await api.getMessages`
switchToChannel(ch) ==
  /\ activeChannelId' = ch.id
  /\ LET S == IF isWsConnected
                THEN sendWs(OutFrame("join-channel", ch.id, ""), Cur(isWsConnected))
                ELSE Cur(isWsConnected)
     IN sent' = S.sent /\ wrote' = S.wrote
  /\ messages' = <<>>
  /\ issued' = <<Call("markChannelRead", ch.id, "")>>
  /\ calls' = calls (+) SetToBag({Call("getMessages", ch.id, DisplayName(ch))})

\* the continuation of switchToChannel after `await api.getMessages`, for the
\* call c which resolved (st = "ok") or rejected (st = "fail")
switchToChannelResume(c) ==
  messages' = IF c.st = "ok" THEN RenderHistory(c.name, c.resp)
                             ELSE RenderHistoryFailure(c.name)

\* myRoleInChannel: the role of the local user in channelMembers, "" = null
myRoleInChannel ==
  IF currentUser # 0 /\ \E i \in DOMAIN channelMembers : channelMembers[i].id = currentUser
    THEN LET i == CHOOSE i \in DOMAIN channelMembers :
                    /\ channelMembers[i].id = currentUser
                    /\ \A j \in 1..(i - 1) : channelMembers[j].id # currentUser
         IN channelMembers[i].role
    ELSE ""

\* loadChannelMembers(), up to its await: returns at once without an active channel
loadChannelMembers ==
  calls' = IF activeChannelId = 0 THEN calls
           ELSE calls (+) SetToBag({Call("getChannelMembers", activeChannelId, "")})

\* the continuation of loadChannelMembers for the call c, which resolved
\* (st = "ok") or rejected
loadChannelMembersResume(c) ==
  /\ channelMembers' = IF c.st = "ok" THEN c.resp ELSE <<>>
  /\ membersOf' = IF c.st = "ok" THEN c.ch ELSE 0

\* sendChatMessage without the check for an active channel
sendChatMessageAnyChannel(text) ==
  /\ messages' = Append(messages,
        ChatMessage(IF currentUser # 0 THEN "@" \o Username[currentUser] ELSE "@anon",
                    text, "user", 0))
  /\ IF isWsConnected
       THEN /\ LET S == sendWs(OutFrame("message", activeChannelId, text),
                               Cur(isWsConnected))
               IN sent' = S.sent /\ wrote' = S.wrote
            /\ UNCHANGED calls
       ELSE /\ calls' = calls (+) SetToBag({Call("sendMessage", activeChannelId, text)})
            /\ wrote' = <<>>
            /\ UNCHANGED sent

\* sendChatMessage(text)
sendChatMessage(text) ==
  IF activeChannelId = 0
    THEN /\ messages' = Append(messages,
               ChatMessage("", "system: No channel selected. Use /join <channel> or pick one from sidebar.",
                           "system", 0))
         /\ wrote' = <<>>
         /\ UNCHANGED <<sent, calls, memberVars>>
    ELSE /\ messages' = Append(messages,
               ChatMessage(IF currentUser # 0 THEN "@" \o Username[currentUser] ELSE "@anon",
                           text, "user", 0))
         /\ IF isWsConnected
              THEN /\ LET S == sendWs(OutFrame("message", activeChannelId, text),
                                      Cur(isWsConnected))
                      IN sent' = S.sent /\ wrote' = S.wrote
                   /\ UNCHANGED calls
              ELSE /\ calls' = calls (+) SetToBag({Call("sendMessage", activeChannelId, text)})
                   /\ wrote' = <<>>
                   /\ UNCHANGED sent

\* the .catch of api.sendMessage in sendChatMessage
sendMessageFailed ==
  messages' = Append(messages, ChatMessage("", "system: Failed to send", "system", 0))

\* loadChannels: the merge of the channel listing and the DM listing
\* the merge pushing every entry, whether or not its id was seen
MergeIntoAll(merged, rest) == merged \o rest

RECURSIVE MergeInto(_, _)
MergeInto(merged, rest) ==
  IF rest = <<>> THEN merged
  ELSE MergeInto(IF \E i \in DOMAIN merged : merged[i].id = Head(rest).id
                   THEN merged ELSE Append(merged, Head(rest)),
                 Tail(rest))

\* a channel-listing entry of type dm takes its recipient from the DM listing
WithRecipient(ch, dms) ==
  IF ch.type = "dm" /\ \E i \in DOMAIN dms : dms[i].id = ch.id
    THEN [ch EXCEPT !.recipient =
            dms[CHOOSE i \in DOMAIN dms :
                  dms[i].id = ch.id /\ \A j \in 1..(i - 1) : dms[j].id # ch.id].recipient]
    ELSE ch

MergeChannels(chans, dms) ==
  MergeInto(MergeInto(<<>>, [i \in DOMAIN chans |-> WithRecipient(chans[i], dms)]), dms)

\* initApp(), up to its await: registers the store handlers once, connects,
\* and starts both snapshot loads
RECURSIVE RegisterAll(_, _)
RegisterAll(kinds, S) ==
  IF kinds = <<>> THEN S
  ELSE RegisterAll(Tail(kinds), onWs(Head(kinds), StoreHandler[Head(kinds)], S))

\* the order of the onWs calls in initApp
StoreKinds == <<"message", "presence", "connected", "status-changed",
                "user-joined", "user-left", "channel_update">>

initApp ==
  /\ wsSetup' = TRUE
  /\ handlers' = IF ~wsSetup THEN RegisterAll(StoreKinds, Cur(isWsConnected)).handlers
                             ELSE handlers
  /\ regs' = IF ~wsSetup THEN RegisterAll(StoreKinds, Cur(isWsConnected)).regs ELSE regs
  /\ connectWs
  /\ calls' = calls (+) SetToBag({Call("loadChannels", 0, "")})
                    (+) SetToBag({Call("loadUsers", 0, "")})

\* setupWsHandlers() of the plain renderer: the same seven onWs calls, each
\* with a new closure of the same body
setupWsHandlers(S) == RegisterAll(StoreKinds, S)

\* initApp() of the plain renderer (it keeps no flag like wsSetupRef)
initAppRenderer ==
  /\ handlers' = setupWsHandlers(Cur(isWsConnected)).handlers
  /\ regs' = setupWsHandlers(Cur(isWsConnected)).regs
  /\ connectWs
  /\ calls' = calls (+) SetToBag({Call("loadChannels", 0, "")})
                    (+) SetToBag({Call("loadUsers", 0, "")})
  /\ UNCHANGED wsSetup

(***************************************************************************)
(* Tasks of the event loop: the transport                                  *)
(***************************************************************************)
\* Bound of the model: a socket can still be created for every pending timer
\* and for every socket whose close event is due, and for one more
Room(max) ==
  Len(socks) + Cardinality(timers)
    + Cardinality({s \in DOMAIN socks : socks[s] = "CLOSING"}) < max

\* some caller calls connectWs()
ConnectWsCall(max) ==
  /\ IF AlreadyConnected THEN TRUE ELSE Room(max)
  /\ connectWs
  /\ last' = Op("connectWs", ws, 0)
  /\ UNCHANGED <<reconnectTimer, timers, reconnectAttempts, handlers, regs, storeVars, sent,
                 serverVars, ghostVars>>
  /\ NoObs

\* some caller calls disconnectWs()
DisconnectWsCall(max) ==
  /\ IF ws = 0 THEN TRUE ELSE (socks[ws] = "CLOSING" \/ Room(max))
  /\ disconnectWs
  /\ last' = Op("disconnectWs", ws, 0)
  /\ UNCHANGED <<reconnectAttempts, handlers, regs, storeVars, sent, serverVars,
                 lastDelay, retryN>>
  /\ NoObs

\* the timeout t set by scheduleReconnect expires: () => connectWs()
TimerFire(t) ==
  /\ t \in timers
  /\ timers' = timers \ {t}
  /\ connectWs
  /\ last' = Op("timer", t, 0)
  /\ UNCHANGED <<reconnectTimer, reconnectAttempts, handlers, regs, storeVars, sent,
                 serverVars, ghostVars>>
  /\ NoObs

\* _ws.onopen of socket s: the connection is established
SockOpen(s) ==
  /\ s \in DOMAIN socks /\ socks[s] = "CONNECTING"
  /\ socks' = [socks EXCEPT ![s] = "OPEN"]
  /\ reconnectAttempts' = 0
  /\ retryN' = 0
  /\ LET S == emit("presence", [BlankFrame EXCEPT !.type = "presence", !.status = "connected"],
                   Cur(ws = s))
     IN /\ Commit(S)
        /\ escaped' = IF S.thrown THEN "onopen" ELSE "none"
  /\ last' = OpK("onopen", s, "presence")
  /\ UNCHANGED <<ws, reconnectTimer, timers, intentionalClose, currentUser, wsSetup,
                 activeChannelId, srvLog, srvUsers, lastDelay, byDisconnect, memberVars>>

\* the server starts the closing handshake on socket s: readyState becomes
\* CLOSING, no callback of the transport runs
SockClosing(s, max) ==
  /\ s \in DOMAIN socks /\ socks[s] = "OPEN"
  /\ Room(max)
  /\ socks' = [socks EXCEPT ![s] = "CLOSING"]
  /\ last' = Op("closing", s, 0)
  /\ UNCHANGED <<ws, reconnectTimer, timers, reconnectAttempts, intentionalClose, handlers, regs,
                 storeVars, sent, serverVars, ghostVars>>
  /\ NoObs

\* _ws.onclose of socket s: the connection is gone (refused, lost, or closed
\* by either side); frames still on the wire are lost with the last connection
SockClose(s, max) ==
  /\ s \in DOMAIN socks /\ socks[s] \in {"CONNECTING", "OPEN", "CLOSING"}
  /\ IF socks[s] = "CLOSING" \/ intentionalClose THEN TRUE ELSE Room(max)
  /\ socks' = [socks EXCEPT ![s] = "CLOSED"]
  /\ onclose(s)
  /\ inbox' = IF \E o \in DOMAIN socks : o # s /\ socks[o] \in {"OPEN", "CLOSING"}
                THEN inbox ELSE <<>>
  /\ last' = Op("onclose", s, IF intentionalClose THEN 0 ELSE 1)
  /\ UNCHANGED <<intentionalClose, handlers, regs, storeVars, sent, srvLog, srvUsers, byDisconnect>>
  /\ NoObs

\* onmessage letting the exception of JSON.parse out of the callback
onmessageRethrows(raw) ==
  IF raw.json = "obj"
    THEN LET S == emit(raw.type, raw, Cur(isWsConnected))
         IN Commit(S) /\ escaped' = "none"
    ELSE /\ UNCHANGED <<handlers, regs, messages, channels, allUsers, sent, calls, memberVars>>
         /\ invoked' = <<>>
         /\ issued' = <<>>
         /\ wrote' = <<>>
         /\ escaped' = "SyntaxError"

\* _ws.onmessage of an OPEN socket with event.data = raw
onmessage(raw) ==
  IF raw.json = "obj"
    THEN LET S == emit(raw.type, raw, Cur(isWsConnected))
         IN Commit(S) /\ escaped' = "none"
    ELSE /\ UNCHANGED <<handlers, regs, messages, channels, allUsers, sent, calls, memberVars>>
         /\ invoked' = <<>>
         /\ issued' = <<>>
         /\ wrote' = <<>>
         /\ escaped' = "none"

SockMessage(raw) ==
  /\ \E s \in DOMAIN socks : socks[s] = "OPEN"
  /\ onmessage(raw)
  /\ last' = [op |-> "onmessage", a |-> raw.channelId, b |-> raw.senderId,
              k |-> IF raw.json = "obj" THEN raw.type ELSE raw.json]
  /\ UNCHANGED <<transportVars, currentUser, wsSetup, activeChannelId, srvLog, srvUsers, ghostVars, memberVars>>

(***************************************************************************)
(* Initial state: the module variables of lib/ws and the useState defaults *)
(***************************************************************************)
\* the user listing of the server when the session starts
ServerUsers == <<[id |-> Self, status |-> "online"], [id |-> Other, status |-> "offline"]>>

Init ==
  /\ socks = <<>> /\ ws = 0 /\ reconnectTimer = 0 /\ timers = {}
  /\ reconnectAttempts = 0 /\ intentionalClose = FALSE
  /\ handlers = [k \in HandlerKeys |-> <<>>]
  /\ regs = [k \in HandlerKeys |-> <<>>]
  /\ currentUser = 0 /\ wsSetup = FALSE /\ channels = <<>> /\ activeChannelId = 0
  /\ messages = <<>> /\ allUsers = <<>> /\ calls = EmptyBag
  /\ channelMembers = <<>> /\ membersOf = 0
  /\ sent = <<>> /\ inbox = <<>> /\ srvLog = <<>> /\ srvUsers = ServerUsers
  /\ lastDelay = 0 /\ retryN = 0 /\ byDisconnect = {}
  /\ invoked = <<>> /\ issued = <<>> /\ wrote = <<>> /\ escaped = "none"
  /\ last = Op("init", 0, 0)

(***************************************************************************)
(* TransportSpec: the transport under any caller and any network           *)
(***************************************************************************)
TransportNext ==
  \/ ConnectWsCall(MaxSockets)
  \/ DisconnectWsCall(MaxSockets)
  \/ \E t \in timers : TimerFire(t)
  \/ \E s \in DOMAIN socks : SockOpen(s) /\ UNCHANGED inbox
  \/ \E s \in DOMAIN socks : SockClosing(s, MaxSockets)
  \/ \E s \in DOMAIN socks : SockClose(s, MaxSockets)

TransportSpec == Init /\ [][TransportNext]_vars

\* the event loop runs every expired timeout, and a socket that is CLOSING
\* gets its close event
TransportFair ==
  /\ WF_vars(\E t \in timers : TimerFire(t))
  /\ WF_vars(\E s \in DOMAIN socks : socks[s] = "CLOSING" /\ SockClose(s, MaxSockets))

TransportLive == TransportSpec /\ TransportFair

\* some caller calls sendWs(msg)
SendWsCall(msg) ==
  /\ IF isWsConnected THEN Len(sent) < MaxSent ELSE TRUE
  /\ Commit(sendWs(msg, Cur(isWsConnected)))
  /\ last' = OpK("sendWs", ws, msg.type)
  /\ escaped' = "none"
  /\ UNCHANGED <<transportVars, currentUser, wsSetup, activeChannelId, serverVars, ghostVars, memberVars>>

\* CallerSpec: the transport under any caller, one that sends included
CallerNext ==
  \/ TransportNext
  \/ SendWsCall(OutFrame("message", 1, "hello"))

CallerSpec == Init /\ [][CallerNext]_vars

(***************************************************************************)
(* BackoffSpec: one connectWs(), then only opens, unintentional closes and *)
(* timer firings                                                           *)
(***************************************************************************)
BackoffNext ==
  \/ (socks = <<>> /\ ConnectWsCall(MaxChain))
  \/ \E t \in timers : TimerFire(t)
  \/ \E s \in DOMAIN socks : SockOpen(s) /\ UNCHANGED inbox
  \/ \E s \in DOMAIN socks : SockClosing(s, MaxChain)
  \/ \E s \in DOMAIN socks : SockClose(s, MaxChain)

BackoffSpec == Init /\ [][BackoffNext]_vars

(***************************************************************************)
(* DispatchSpec: callers register handlers; one connection delivers frames *)
(***************************************************************************)
\* a caller registers handler function h for key k
OnWsCall(k, h) ==
  /\ Len(handlers[k]) < MaxHandlers
  /\ Len(regs[k]) < MaxRegs
  /\ Commit(onWs(k, h, Cur(isWsConnected)))
  /\ last' = OpK("onWs", 0, k)
  /\ escaped' = "none"
  /\ UNCHANGED <<transportVars, currentUser, wsSetup, activeChannelId, serverVars, ghostVars, memberVars>>

\* frames the network may deliver in DispatchSpec: one of a kind no store
\* handler listens to, one that is not JSON, and a JSON object without a
\* type property
PingFrame == [BlankFrame EXCEPT !.type = "ping"]
BadFrame == [BlankFrame EXCEPT !.json = "bad"]
TypelessFrame == [BlankFrame EXCEPT !.content = "hello"]

DispatchNext ==
  \/ ConnectWsCall(MaxDispatchSockets)
  \/ \E t \in timers : TimerFire(t)
  \/ \E s \in DOMAIN socks : SockOpen(s) /\ UNCHANGED inbox
  \/ \E s \in DOMAIN socks : SockClose(s, MaxDispatchSockets)
  \/ \E k \in {"ping", "presence", Wildcard}, h \in TestHandlers : OnWsCall(k, h)
  \/ \E raw \in {PingFrame, BadFrame, TypelessFrame} : SockMessage(raw) /\ UNCHANGED inbox

DispatchSpec == Init /\ [][DispatchNext]_vars

\* OrderSpec: callers register handlers that return normally, for two kinds
\* and the wildcard; the connection opens and delivers 'ping' frames
OrderNext ==
  \/ ConnectWsCall(MaxDispatchSockets)
  \/ \E s \in DOMAIN socks : SockOpen(s) /\ UNCHANGED inbox
  \/ \E k \in {"ping", "presence", Wildcard}, h \in PlainHandlers : OnWsCall(k, h)
  \/ SockMessage(PingFrame) /\ UNCHANGED inbox

OrderSpec == Init /\ [][OrderNext]_vars

(***************************************************************************)
(* RegistrySpec: callers register handlers and call the unsubscribe        *)
(* closures they were given, outside a dispatch or (hOnce) from within one *)
(***************************************************************************)
\* a caller calls, outside any dispatch, the closure its i-th onWs call for
\* key k returned
UnsubscribeCall(k, i) ==
  /\ i \in DOMAIN regs[k]
  /\ Commit(CallUnsubscribe(k, i, Cur(isWsConnected)))
  /\ last' = [op |-> "unsubscribe", a |-> i, b |-> regs[k][i].calls, k |-> k]
  /\ escaped' = "none"
  /\ UNCHANGED <<transportVars, currentUser, wsSetup, activeChannelId, serverVars, ghostVars, memberVars>>

RegistryNext ==
  \/ ConnectWsCall(MaxDispatchSockets)
  \/ \E s \in DOMAIN socks : SockOpen(s) /\ UNCHANGED inbox
  \/ \E h \in OnceHandlers : OnWsCall("ping", h)
  \/ \E i \in 1..MaxRegs : UnsubscribeCall("ping", i)
  \/ SockMessage(PingFrame) /\ UNCHANGED inbox

RegistrySpec == Init /\ [][RegistryNext]_vars

(***************************************************************************)
(* The store's tasks, and its server                                       *)
(***************************************************************************)
\* what the server answers to the channel listing, the DM listing and the
\* user listing
Channel(id, name, type, unread, recipient) ==
  [id |-> id, name |-> name, type |-> type, unreadCount |-> unread,
   lastMessage |-> NoLastMessage, recipient |-> recipient]

ServerChans == <<Channel(1, "general", "channel", 0, ""), Channel(2, "dev", "channel", 3, "")>>
ServerDms == <<>>

\* the members of channel ch: the local user is admin of 'general' and a
\* plain member of 'dev'
ServerMembers(ch) ==
  IF ch = 1 THEN <<[id |-> Self, role |-> "admin"], [id |-> Other, role |-> "member"]>>
  ELSE <<[id |-> Other, role |-> "admin"], [id |-> Self, role |-> "member"]>>

\* the role of user uid in channel ch according to the server, "" = no member
ServerRole(ch, uid) ==
  IF \E i \in DOMAIN ServerMembers(ch) : ServerMembers(ch)[i].id = uid
    THEN (CHOOSE m \in {ServerMembers(ch)[i] : i \in DOMAIN ServerMembers(ch)} : m.id = uid).role
    ELSE ""

\* texts a user may type
Texts == {"hello"}

SomeOpen == \E s \in DOMAIN socks : socks[s] = "OPEN"

\* the server stores a message and pushes its 'message' frame to the client
\* when the client has an open connection
Store(ch, uid, text) ==
  LET sid == Len(srvLog) + 1
  IN /\ srvLog' = Append(srvLog, [id |-> sid, channelId |-> ch, senderId |-> uid,
                                  senderUsername |-> Username[uid], content |-> text,
                                  type |-> "user"])
     /\ inbox' = IF SomeOpen
                   THEN Append(inbox, MessageFrame(ch, uid, Username[uid], text, sid))
                   ELSE inbox
     /\ UNCHANGED srvUsers

\* the page of api.getMessages(ch, {limit}): the newest messages, newest first
RECURSIVE Filter(_, _)
Filter(q, ch) ==
  IF q = <<>> THEN <<>>
  ELSE IF Head(q).channelId = ch THEN <<Head(q)>> \o Filter(Tail(q), ch)
  ELSE Filter(Tail(q), ch)

Page(ch) ==
  LET newestFirst == Reverse(Filter(srvLog, ch))
  IN SubSeq(newestFirst, 1, Min(Len(newestFirst), HISTORY_LIMIT))

Pending(kind) == {c \in DOMAIN calls : c.kind = kind /\ c.st = "pending"}
Answered(kind) == {c \in DOMAIN calls : c.kind = kind /\ c.st # "pending"}
Without(c) == calls (-) SetToBag({c})

\* AuthOverlay: setCurrentUser(user); initApp()
Login ==
  /\ currentUser = 0
  /\ currentUser' = Self
  /\ initApp
  /\ last' = Op("login", 0, 0)
  /\ UNCHANGED <<reconnectTimer, timers, reconnectAttempts, channels, activeChannelId,
                 messages, allUsers, sent, serverVars, ghostVars, memberVars>>
  /\ NoObs

\* loadChannels resumes with both listings
LoadChannelsDone(c) ==
  /\ c \in Pending("loadChannels")
  /\ channels' = MergeChannels(ServerChans, ServerDms)
  /\ calls' = Without(c)
  /\ last' = Op("loadChannels.ok", 0, 0)
  /\ UNCHANGED <<transportVars, handlers, regs, currentUser, wsSetup, activeChannelId, messages,
                 allUsers, sent, serverVars, ghostVars, memberVars>>
  /\ NoObs

\* loadChannels resumes in its catch
LoadChannelsFail(c) ==
  /\ c \in Pending("loadChannels")
  /\ Len(messages) < MaxMessages
  /\ messages' = Append(messages, ChatMessage("", "system: Failed to load channels", "system", 0))
  /\ calls' = Without(c)
  /\ last' = Op("loadChannels.fail", 0, 0)
  /\ UNCHANGED <<transportVars, handlers, regs, currentUser, wsSetup, channels, activeChannelId,
                 allUsers, sent, serverVars, ghostVars, memberVars>>
  /\ NoObs

\* loadUsers resumes with the listing
LoadUsersDone(c) ==
  /\ c \in Pending("loadUsers")
  /\ allUsers' = ServerUsers
  /\ calls' = Without(c)
  /\ last' = Op("loadUsers.ok", 0, 0)
  /\ UNCHANGED <<transportVars, handlers, regs, currentUser, wsSetup, channels, activeChannelId,
                 messages, sent, serverVars, ghostVars, memberVars>>
  /\ NoObs

\* loadUsers dropping the held list in its catch
LoadUsersFailClears(c) ==
  /\ c \in Pending("loadUsers")
  /\ Len(messages) < MaxMessages
  /\ messages' = Append(messages, ChatMessage("", "system: Failed to load users", "system", 0))
  /\ allUsers' = <<>>
  /\ calls' = Without(c)
  /\ last' = Op("loadUsers.fail", 0, 0)
  /\ UNCHANGED <<transportVars, handlers, regs, currentUser, wsSetup, channels, activeChannelId,
                 sent, serverVars, ghostVars, memberVars>>
  /\ NoObs

\* loadUsers resumes in its catch
LoadUsersFail(c) ==
  /\ c \in Pending("loadUsers")
  /\ Len(messages) < MaxMessages
  /\ messages' = Append(messages, ChatMessage("", "system: Failed to load users", "system", 0))
  /\ calls' = Without(c)
  /\ last' = Op("loadUsers.fail", 0, 0)
  /\ UNCHANGED <<transportVars, handlers, regs, currentUser, wsSetup, channels, activeChannelId,
                 allUsers, sent, serverVars, ghostVars, memberVars>>
  /\ NoObs

\* a click on channel ch of the sidebar: switchToChannel(ch)
SwitchToChannel(ch, maxCalls) ==
  /\ BagCardinality(calls) < maxCalls
  /\ switchToChannel(ch)
  /\ last' = Op("switchToChannel", ch.id, activeChannelId)
  /\ UNCHANGED <<transportVars, handlers, regs, currentUser, wsSetup, channels, allUsers,
                 serverVars, ghostVars, memberVars>>
  /\ invoked' = <<>> /\ escaped' = "none"

\* the server answers a history fetch with the page as it is now
ServeGetMessages(c) ==
  /\ c \in Pending("getMessages")
  /\ calls' = Without(c) (+) SetToBag({[c EXCEPT !.st = "ok", !.resp = Page(c.ch)]})
  /\ last' = Op("getMessages.serve", c.ch, 0)
  /\ UNCHANGED <<transportVars, handlers, regs, currentUser, wsSetup, channels, activeChannelId,
                 messages, allUsers, sent, serverVars, ghostVars, memberVars>>
  /\ NoObs

\* the history fetch fails
FailGetMessages(c) ==
  /\ c \in Pending("getMessages")
  /\ calls' = Without(c) (+) SetToBag({[c EXCEPT !.st = "fail"]})
  /\ last' = Op("getMessages.reject", c.ch, 0)
  /\ UNCHANGED <<transportVars, handlers, regs, currentUser, wsSetup, channels, activeChannelId,
                 messages, allUsers, sent, serverVars, ghostVars, memberVars>>
  /\ NoObs

\* switchToChannel resumes after its await
GetMessagesResume(c) ==
  /\ c \in Answered("getMessages")
  /\ switchToChannelResume(c)
  /\ calls' = Without(c)
  /\ last' = OpK("getMessages.resume", c.ch, c.st)
  /\ UNCHANGED <<transportVars, handlers, regs, currentUser, wsSetup, channels, activeChannelId,
                 allUsers, sent, serverVars, ghostVars, memberVars>>
  /\ NoObs

\* the user submits text: sendChatMessage(text)
SendChatMessage(text) ==
  /\ Len(messages) < MaxMessages
  /\ Len(sent) < MaxSent
  /\ BagCardinality(calls) < MaxCalls
  /\ sendChatMessage(text)
  /\ last' = OpK("sendChatMessage", activeChannelId, text)
  /\ UNCHANGED <<transportVars, handlers, regs, currentUser, wsSetup, channels, activeChannelId,
                 allUsers, serverVars, ghostVars, memberVars>>
  /\ invoked' = <<>> /\ issued' = <<>> /\ escaped' = "none"

\* api.sendMessage succeeds: the server has stored the message
SendMessageDone(c) ==
  /\ c \in Pending("sendMessage")
  /\ Len(srvLog) < MaxPosts
  /\ Store(c.ch, currentUser, c.name)
  /\ calls' = Without(c)
  /\ last' = Op("sendMessage.ok", c.ch, 0)
  /\ UNCHANGED <<transportVars, handlers, regs, currentUser, wsSetup, channels, activeChannelId,
                 messages, allUsers, sent, ghostVars, memberVars>>
  /\ NoObs

\* api.sendMessage fails
SendMessageFail(c) ==
  /\ c \in Pending("sendMessage")
  /\ Len(messages) < MaxMessages
  /\ sendMessageFailed
  /\ calls' = Without(c)
  /\ last' = Op("sendMessage.fail", c.ch, 0)
  /\ UNCHANGED <<transportVars, handlers, regs, currentUser, wsSetup, channels, activeChannelId,
                 allUsers, sent, serverVars, ghostVars, memberVars>>
  /\ NoObs

\* another user posts text to channel ch
ServerPost(ch, text) ==
  /\ Len(srvLog) < MaxPosts
  /\ Store(ch, Other, text)
  /\ last' = Op("post", ch, 0)
  /\ UNCHANGED <<transportVars, handlers, regs, storeVars, sent, ghostVars>>
  /\ NoObs

\* the server reads the next 'message' frame the client wrote
ServerRecv ==
  /\ sent # <<>>
  /\ sent' = Tail(sent)
  /\ Len(srvLog) < MaxPosts
  /\ Store(Head(sent).channelId, Self, Head(sent).content)
  /\ last' = OpK("recv", 0, Head(sent).type)
  /\ UNCHANGED <<transportVars, handlers, regs, storeVars, ghostVars>>
  /\ NoObs

\* the next frame of the server reaches onmessage
Deliver ==
  /\ inbox # <<>>
  /\ SockMessage(Head(inbox))
  /\ inbox' = Tail(inbox)

ConnectedFrame == [BlankFrame EXCEPT !.type = "connected"]

\* a socket opens, and the server acknowledges the authentication
StoreSockOpen(s) ==
  /\ Len(messages) < MaxMessages
  /\ SockOpen(s)
  /\ inbox' = Append(inbox, ConnectedFrame)

\* api.updateMe({status: 'online'}) resolves: nothing is attached to the
\* promise but the empty .catch
UpdateMeDone(c) ==
  /\ c \in Pending("updateMe")
  /\ calls' = Without(c)
  /\ last' = Op("updateMe.ok", 0, 0)
  /\ UNCHANGED <<transportVars, handlers, regs, currentUser, wsSetup, channels, activeChannelId,
                 messages, allUsers, sent, serverVars, ghostVars, memberVars>>
  /\ NoObs

\* api.updateMe rejects: .catch(() => {})
UpdateMeFail(c) ==
  /\ c \in Pending("updateMe")
  /\ calls' = Without(c)
  /\ last' = Op("updateMe.fail", 0, 0)
  /\ UNCHANGED <<transportVars, handlers, regs, currentUser, wsSetup, channels, activeChannelId,
                 messages, allUsers, sent, serverVars, ghostVars, memberVars>>
  /\ NoObs

\* dismissAuth(user) of the plain renderer, which the auto-login, the login
\* form and the signup form each call when their request succeeds; its timer
\* calls initApp()
DismissAuth ==
  /\ Len(regs["message"]) < MaxHandlers
  /\ currentUser' = Self
  /\ initAppRenderer
  /\ last' = Op("initApp", 0, 0)
  /\ UNCHANGED <<reconnectTimer, timers, reconnectAttempts, channels, activeChannelId,
                 messages, allUsers, sent, serverVars, ghostVars, memberVars>>
  /\ NoObs

(***************************************************************************)
(* SessionSpec: login and startup.  InboundSpec and SendSpec: the running *)
(* session, from the state Started, which SessionSpec reaches when startup *)
(* has gone through: handlers                                              *)
(* registered, both snapshots loaded, the socket open, the server's        *)
(* 'connected' handled and the join-channel frames read by the server.     *)
(***************************************************************************)
SessionNext ==
  \/ Login
  \/ \E t \in timers : TimerFire(t)
  \/ \E s \in DOMAIN socks : StoreSockOpen(s)
  \/ \E s \in DOMAIN socks : SockClose(s, StoreSockets)
  \/ \E c \in DOMAIN calls : LoadChannelsDone(c)
  \/ \E c \in DOMAIN calls : LoadChannelsFail(c)
  \/ \E c \in DOMAIN calls : LoadUsersDone(c)
  \/ \E c \in DOMAIN calls : LoadUsersFail(c)
  \/ \E c \in DOMAIN calls : UpdateMeDone(c)
  \/ \E c \in DOMAIN calls : UpdateMeFail(c)
  \/ Deliver

SessionSpec == Init /\ [][SessionNext]_vars

Started ==
  /\ socks = <<"OPEN">> /\ ws = 1 /\ reconnectTimer = 0 /\ timers = {}
  /\ reconnectAttempts = 0 /\ intentionalClose = FALSE
  /\ handlers = [k \in HandlerKeys |->
                   IF k \in Kinds \ {"ping"} THEN <<StoreHandler[k]>> ELSE <<>>]
  /\ regs = [k \in HandlerKeys |->
               IF k \in Kinds \ {"ping"} THEN <<Registration(StoreHandler[k])>> ELSE <<>>]
  /\ currentUser = Self /\ wsSetup = TRUE
  /\ channels = MergeChannels(ServerChans, ServerDms) /\ activeChannelId = 0
  /\ messages = <<ChatMessage("", "system: connected to mesh", "system", 0)>>
  /\ allUsers = ServerUsers /\ calls = EmptyBag
  /\ channelMembers = <<>> /\ membersOf = 0
  /\ sent = <<>> /\ inbox = <<>> /\ srvLog = <<>> /\ srvUsers = ServerUsers
  /\ lastDelay = 0 /\ retryN = 0 /\ byDisconnect = {}
  /\ invoked = <<"store:connected">> /\ issued = <<>> /\ escaped = "none"
  /\ wrote = <<OutFrame("join-channel", 1, ""), OutFrame("join-channel", 2, "")>>
  /\ last = OpK("onmessage", 0, "connected")

\* InboundSpec: the connection stays open; the user switches channels while
\* other users post and history fetches are answered, or fail, in any order
\* RendererSpec: startup of the plain renderer, where a stored token is
\* verified while the user may also submit the login form; then another user
\* posts
RendererNext ==
  \/ DismissAuth
  \/ \E s \in DOMAIN socks : StoreSockOpen(s)
  \/ \E c \in DOMAIN calls : LoadChannelsDone(c)
  \/ \E c \in DOMAIN calls : LoadUsersDone(c)
  \/ \E c \in DOMAIN calls : UpdateMeDone(c)
  \/ \E ch \in {1, 2}, text \in Texts : ServerPost(ch, text)
  \/ Deliver

RendererSpec == Init /\ [][RendererNext]_vars

(***************************************************************************)
(* RefreshSpec: the running session refreshes its snapshots: the interval  *)
(* reloads the users, a 'channel_update' event reloads the channels, and   *)
(* 'status-changed' events arrive for known and unknown users              *)
(***************************************************************************)
StatusFrame(uid, status) ==
  [BlankFrame EXCEPT !.type = "status-changed", !.userId = uid, !.status = status]
ChannelUpdateFrame == [BlankFrame EXCEPT !.type = "channel_update"]

\* a user id no entry of the user list has
Stranger == 3

\* Bound of the model: frames on the wire plus calls in flight
Backlog == Len(inbox) + BagCardinality(calls)

\* the interval of the provider fires: loadUsers() up to its await
UsersInterval ==
  /\ Backlog < MaxCalls
  /\ calls' = calls (+) SetToBag({Call("loadUsers", 0, "")})
  /\ last' = Op("interval", 0, 0)
  /\ UNCHANGED <<transportVars, handlers, regs, currentUser, wsSetup, channels, activeChannelId,
                 messages, allUsers, sent, serverVars, ghostVars, memberVars>>
  /\ NoObs

\* the server pushes a frame to the open connection
ServerPush(raw) ==
  /\ SomeOpen
  /\ Backlog < MaxCalls
  /\ inbox' = Append(inbox, raw)
  /\ last' = OpK("push", 0, raw.type)
  /\ UNCHANGED <<transportVars, handlers, regs, storeVars, sent, srvLog, srvUsers, ghostVars>>
  /\ NoObs

RefreshNext ==
  \/ UsersInterval
  \/ ServerPush(ChannelUpdateFrame)
  \/ \E uid \in {0, Other, Stranger}, st \in {"idle", "online"} : ServerPush(StatusFrame(uid, st))
  \/ Deliver
  \/ \E c \in DOMAIN calls : LoadChannelsDone(c)
  \/ \E c \in DOMAIN calls : LoadChannelsFail(c)
  \/ \E c \in DOMAIN calls : LoadUsersDone(c)
  \/ \E c \in DOMAIN calls : LoadUsersFail(c)

RefreshSpec == Started /\ [][RefreshNext]_vars

(***************************************************************************)
(* NoticeSpec: the user switches channels while other users join and leave *)
(* channels                                                                *)
(***************************************************************************)
UserJoinedFrame(ch, name) ==
  [BlankFrame EXCEPT !.type = "user-joined", !.channelId = ch, !.username = name]
UserLeftFrame(ch) == [BlankFrame EXCEPT !.type = "user-left", !.channelId = ch]

\* the server pushes a membership event while the list has room for its notice
ServerNotify(raw) ==
  /\ Len(messages) + Len(inbox) < MaxMessages
  /\ ServerPush(raw)

NoticeNext ==
  \/ \E i \in DOMAIN channels : SwitchToChannel(channels[i], SendCalls)
  \/ \E c \in DOMAIN calls : ServeGetMessages(c)
  \/ \E c \in DOMAIN calls : GetMessagesResume(c)
  \/ \E ch \in {1, 2}, name \in {"bob", ""} : ServerNotify(UserJoinedFrame(ch, name))
  \/ \E ch \in {1, 2} : ServerNotify(UserLeftFrame(ch))
  \/ Deliver

NoticeSpec == Started /\ [][NoticeNext]_vars

(***************************************************************************)
(* SnapshotSpec: 'channel_update' events reload the channel list while     *)
(* other users post; the listing is the server's at the time it answers,   *)
(* with each channel's unread count and last message as of then            *)
(***************************************************************************)
ServerChansNow ==
  [i \in DOMAIN ServerChans |->
     LET posts == Filter(srvLog, ServerChans[i].id)
         unread == Cardinality({k \in DOMAIN posts : posts[k].senderId # Self})
     IN IF posts = <<>> THEN ServerChans[i]
        ELSE [ServerChans[i] EXCEPT
                !.unreadCount = @ + unread,
                !.lastMessage = [content |-> posts[Len(posts)].content,
                                 senderId |-> posts[Len(posts)].senderId]]]

\* the server answers api.listChannels() and api.listDms() of loadChannels
ServeLoadChannels(c) ==
  /\ c \in Pending("loadChannels")
  /\ calls' = Without(c)
                 (+) SetToBag({[c EXCEPT !.st = "ok",
                                         !.resp = MergeChannels(ServerChansNow, ServerDms)]})
  /\ last' = Op("loadChannels.serve", 0, 0)
  /\ UNCHANGED <<transportVars, handlers, regs, currentUser, wsSetup, channels, activeChannelId,
                 messages, allUsers, sent, serverVars, ghostVars, memberVars>>
  /\ NoObs

\* loadChannels resumes after its await: setChannels(merged)
LoadChannelsResume(c) ==
  /\ c \in Answered("loadChannels")
  /\ channels' = c.resp
  /\ calls' = Without(c)
  /\ last' = Op("loadChannels.resume", 0, 0)
  /\ UNCHANGED <<transportVars, handlers, regs, currentUser, wsSetup, activeChannelId, messages,
                 allUsers, sent, serverVars, ghostVars, memberVars>>
  /\ NoObs

SnapshotNext ==
  \/ ServerPush(ChannelUpdateFrame)
  \/ \E ch \in {1, 2}, text \in Texts : ServerPost(ch, text)
  \/ Deliver
  \/ \E c \in DOMAIN calls : ServeLoadChannels(c)
  \/ \E c \in DOMAIN calls : LoadChannelsResume(c)

SnapshotSpec == Started /\ [][SnapshotNext]_vars

(***************************************************************************)
(* PresenceSpec: the interval reloads the user list while another user's   *)
(* status changes on the server, which tells every connected client        *)
(***************************************************************************)
\* the status of user uid becomes st on the server, which broadcasts it
ServerStatus(uid, st) ==
  /\ SomeOpen
  /\ Backlog < MaxCalls
  /\ \E i \in DOMAIN srvUsers : srvUsers[i].id = uid /\ srvUsers[i].status # st
  /\ srvUsers' = [i \in DOMAIN srvUsers |->
                    IF srvUsers[i].id = uid THEN [srvUsers[i] EXCEPT !.status = st]
                    ELSE srvUsers[i]]
  /\ inbox' = Append(inbox, StatusFrame(uid, st))
  /\ last' = OpK("status", uid, st)
  /\ UNCHANGED <<transportVars, handlers, regs, storeVars, sent, srvLog, ghostVars>>
  /\ NoObs

\* the server answers api.listUsers() with its listing as it is now
ServeLoadUsers(c) ==
  /\ c \in Pending("loadUsers")
  /\ calls' = Without(c) (+) SetToBag({[c EXCEPT !.st = "ok", !.resp = srvUsers]})
  /\ last' = Op("loadUsers.serve", 0, 0)
  /\ UNCHANGED <<transportVars, handlers, regs, currentUser, wsSetup, channels, activeChannelId,
                 messages, allUsers, sent, serverVars, ghostVars, memberVars>>
  /\ NoObs

\* loadUsers resumes after its await: setAllUsers(users)
LoadUsersResume(c) ==
  /\ c \in Answered("loadUsers")
  /\ allUsers' = c.resp
  /\ calls' = Without(c)
  /\ last' = Op("loadUsers.resume", 0, 0)
  /\ UNCHANGED <<transportVars, handlers, regs, currentUser, wsSetup, channels, activeChannelId,
                 messages, sent, serverVars, ghostVars, memberVars>>
  /\ NoObs

PresenceNext ==
  \/ UsersInterval
  \/ \E st \in {"idle", "online", "offline"} : ServerStatus(Other, st)
  \/ Deliver
  \/ \E c \in DOMAIN calls : ServeLoadUsers(c)
  \/ \E c \in DOMAIN calls : LoadUsersResume(c)

PresenceSpec == Started /\ [][PresenceNext]_vars

(***************************************************************************)
(* RouteSpec: the user picks a channel and sends while other users post to *)
(* the listed channels and to a channel the list does not have; the        *)
(* history of the channel picked has not arrived yet                       *)
(***************************************************************************)
\* a channel id no entry of the channel list has
UnlistedChannel == 3

RouteNext ==
  \/ \E i \in DOMAIN channels : SwitchToChannel(channels[i], SendCalls)
  \/ \E ch \in {1, 2, UnlistedChannel}, text \in Texts : ServerPost(ch, text)
  \/ \E text \in Texts : SendChatMessage(text)
  \/ ServerRecv
  \/ Deliver

RouteSpec == Started /\ [][RouteNext]_vars

(***************************************************************************)
(* MergeSpec: loadChannels resumes with a channel listing and a DM listing *)
(* drawn from the listings of at most MaxListing entries, ids repeated     *)
(* within a listing and across the two included                            *)
(***************************************************************************)
MaxListing == 2

ListedEntries ==
  {Channel(id, "listed", type, 0, "") : id \in {1, 2}, type \in {"channel", "dm"}}
DmEntries == {Channel(id, "direct", "dm", 0, "bob") : id \in {2, 3}}

\* the sequences of at most MaxListing entries
Listings(E) == UNION {[1..n -> E] : n \in 0..MaxListing}

MergeInit ==
  /\ socks = <<"OPEN">> /\ ws = 1 /\ reconnectTimer = 0 /\ timers = {}
  /\ reconnectAttempts = 0 /\ intentionalClose = FALSE
  /\ handlers = [k \in HandlerKeys |->
                   IF k \in Kinds \ {"ping"} THEN <<StoreHandler[k]>> ELSE <<>>]
  /\ regs = [k \in HandlerKeys |->
               IF k \in Kinds \ {"ping"} THEN <<Registration(StoreHandler[k])>> ELSE <<>>]
  /\ currentUser = Self /\ wsSetup = TRUE
  /\ channels = MergeChannels(ServerChans, ServerDms) /\ activeChannelId = 0
  /\ messages = <<ChatMessage("", "system: connected to mesh", "system", 0)>>
  /\ allUsers = ServerUsers /\ calls \in {SetToBag({[Call("loadChannels", 0, "") EXCEPT
                               !.st = "ok", !.resp = [chans |-> chans, dms |-> dms]]}) :
                 chans \in Listings(ListedEntries), dms \in Listings(DmEntries)}
  /\ channelMembers = <<>> /\ membersOf = 0
  /\ sent = <<>> /\ inbox = <<>> /\ srvLog = <<>> /\ srvUsers = ServerUsers
  /\ lastDelay = 0 /\ retryN = 0 /\ byDisconnect = {}
  /\ invoked = <<"store:connected">> /\ issued = <<>> /\ escaped = "none"
  /\ wrote = <<OutFrame("join-channel", 1, ""), OutFrame("join-channel", 2, "")>>
  /\ last = OpK("onmessage", 0, "connected")

\* loadChannels resumes after its await with the two listings of c
LoadChannelsMerge(c) ==
  /\ c \in Answered("loadChannels")
  /\ channels' = MergeChannels(c.resp.chans, c.resp.dms)
  /\ calls' = Without(c)
  /\ last' = Op("loadChannels.merge", 0, 0)
  /\ UNCHANGED <<transportVars, handlers, regs, currentUser, wsSetup, activeChannelId, messages,
                 allUsers, sent, serverVars, ghostVars, memberVars>>
  /\ NoObs

MergeNext == \E c \in DOMAIN calls : LoadChannelsMerge(c)

MergeSpec == MergeInit /\ [][MergeNext]_vars

InboundNext ==
  \/ \E i \in DOMAIN channels : SwitchToChannel(channels[i], MaxCalls)
  \/ \E c \in DOMAIN calls : ServeGetMessages(c)
  \/ \E c \in DOMAIN calls : FailGetMessages(c)
  \/ \E c \in DOMAIN calls : GetMessagesResume(c)
  \/ \E ch \in {1, 2}, text \in Texts : ServerPost(ch, text)
  \/ Deliver

InboundSpec == Started /\ [][InboundNext]_vars

\* the people panel opens, or a member was added or kicked: loadChannelMembers()
LoadChannelMembersCall ==
  /\ BagCardinality(calls) < MaxCalls
  /\ loadChannelMembers
  /\ last' = Op("loadChannelMembers", activeChannelId, 0)
  /\ UNCHANGED <<transportVars, handlers, regs, currentUser, wsSetup, channels,
                 activeChannelId, messages, allUsers, memberVars, sent, serverVars, ghostVars>>
  /\ NoObs

\* the server answers a member fetch
ServeGetChannelMembers(c) ==
  /\ c \in Pending("getChannelMembers")
  /\ calls' = Without(c) (+) SetToBag({[c EXCEPT !.st = "ok", !.resp = ServerMembers(c.ch)]})
  /\ last' = Op("getChannelMembers.serve", c.ch, 0)
  /\ UNCHANGED <<transportVars, handlers, regs, currentUser, wsSetup, channels,
                 activeChannelId, messages, allUsers, memberVars, sent, serverVars, ghostVars>>
  /\ NoObs

\* the member fetch fails
FailGetChannelMembers(c) ==
  /\ c \in Pending("getChannelMembers")
  /\ calls' = Without(c) (+) SetToBag({[c EXCEPT !.st = "fail"]})
  /\ last' = Op("getChannelMembers.reject", c.ch, 0)
  /\ UNCHANGED <<transportVars, handlers, regs, currentUser, wsSetup, channels,
                 activeChannelId, messages, allUsers, memberVars, sent, serverVars, ghostVars>>
  /\ NoObs

\* loadChannelMembers resumes after its await
GetChannelMembersResume(c) ==
  /\ c \in Answered("getChannelMembers")
  /\ loadChannelMembersResume(c)
  /\ calls' = Without(c)
  /\ last' = OpK("getChannelMembers.resume", c.ch, c.st)
  /\ UNCHANGED <<transportVars, handlers, regs, currentUser, wsSetup, channels,
                 activeChannelId, messages, allUsers, sent, serverVars, ghostVars>>
  /\ NoObs

\* OfflineSpec: the connection is lost while the user switches channels and
\* sends; a send made while the transport is down goes through the
\* data-access layer and succeeds or fails
OfflineNext ==
  \/ \E i \in DOMAIN channels : SwitchToChannel(channels[i], SendCalls)
  \/ \E c \in DOMAIN calls : ServeGetMessages(c)
  \/ \E c \in DOMAIN calls : GetMessagesResume(c)
  \/ \E s \in DOMAIN socks : SockClose(s, StoreSockets)
  \/ \E text \in Texts : SendChatMessage(text)
  \/ \E c \in DOMAIN calls : SendMessageDone(c)
  \/ \E c \in DOMAIN calls : SendMessageFail(c)

OfflineSpec == Started /\ [][OfflineNext]_vars

\* MembersSpec: the user switches channels and the member list is fetched,
\* the answers arriving in any order
MembersNext ==
  \/ \E i \in DOMAIN channels : SwitchToChannel(channels[i], MaxCalls)
  \/ \E c \in DOMAIN calls : ServeGetMessages(c)
  \/ \E c \in DOMAIN calls : GetMessagesResume(c)
  \/ LoadChannelMembersCall
  \/ \E c \in DOMAIN calls : ServeGetChannelMembers(c)
  \/ \E c \in DOMAIN calls : FailGetChannelMembers(c)
  \/ \E c \in DOMAIN calls : GetChannelMembersResume(c)

MembersSpec == Started /\ [][MembersNext]_vars

\* api.markChannelRead(ch.id) of the switchToChannel that just ran succeeds;
\* the code attaches only .catch(() => {}) to it
MarkChannelReadDone ==
  /\ last.op = "switchToChannel"
  /\ last' = Op("markChannelRead.ok", last.a, 0)
  /\ UNCHANGED <<transportVars, handlers, regs, storeVars, sent, serverVars, ghostVars>>
  /\ NoObs

\* ReadSpec: InboundSpec, with the success of the mark-read calls
ReadNext ==
  \/ InboundNext
  \/ MarkChannelReadDone

ReadSpec == Started /\ [][ReadNext]_vars

\* SendSpec: the connection stays open; the user switches channels and sends,
\* the server reads what was sent and pushes it back
SendNext ==
  \/ \E i \in DOMAIN channels : SwitchToChannel(channels[i], SendCalls)
  \/ \E c \in DOMAIN calls : ServeGetMessages(c)
  \/ \E c \in DOMAIN calls : GetMessagesResume(c)
  \/ \E text \in Texts : SendChatMessage(text)
  \/ ServerRecv
  \/ Deliver

SendSpec == Started /\ [][SendNext]_vars

(***************************************************************************)
(* Claims about the transport                                              *)
(***************************************************************************)
\* C1: at most one socket created by the transport is CONNECTING or OPEN at
\* any time, whatever the interleaving of connectWs(), disconnectWs(), socket
\* events and timer firings.
C1_AtMostOneLiveSocket == Cardinality(LiveSockets) <= 1

\* C2: the close event of a socket that disconnectWs() closed never schedules
\* a reconnect timer.
C2_NoReconnectAfterDisconnect ==
  [][\A s \in DOMAIN socks :
       (s \in byDisconnect /\ socks[s] # "CLOSED" /\ socks'[s] = "CLOSED")
         => timers' \subseteq timers]_vars

\* C3: when disconnectWs() returns, no reconnect timer is pending and the
\* transport holds no socket.
C3_DisconnectLeavesNothingPending ==
  [][last'.op = "disconnectWs" => (timers' = {} /\ ws' = 0)]_vars

\* C4: the delay of the Nth consecutive retry scheduled without an
\* intervening open is min(1000 * 2^(N-1), 30000) ms; an open resets N.
C4_BackoffDelay ==
  retryN > 0 => lastDelay = Min(1000 * Pow2(retryN - 1), 30000)

\* C4 witness: six retries in a row without an open, the sixth at the cap
C4_Witness == retryN = 6 /\ lastDelay = 30000 /\ last.op = "onclose"

\* C5: once started and as long as disconnectWs() is not called, the
\* transport always comes to hold a CONNECTING or OPEN socket again: every
\* unintentional close is followed by a new connection attempt.
C5_EventuallyReconnects ==
  [](socks # <<>> => <>(AlreadyConnected \/ intentionalClose))

\* C5 witness: a socket created by the third retry in a row
C5_Witness == last.op = "timer" /\ reconnectAttempts >= 3 /\ AlreadyConnected

\* C14: sendWs(msg) called while the transport holds no OPEN socket (none,
\* CONNECTING, CLOSING, waiting for a reconnect) writes nothing, raises
\* nothing, queues nothing for later and leaves the socket, the reconnect
\* attempts, the timer, the intentional-close flag and the handlers unchanged.
C14_SendWhenNotOpen ==
  [][(last'.op = "sendWs" /\ (IF ws = 0 THEN TRUE ELSE socks[ws] # "OPEN"))
       => /\ wrote' = <<>> /\ sent' = sent /\ escaped' = "none"
          /\ UNCHANGED <<socks, ws, reconnectTimer, timers, reconnectAttempts,
                         intentionalClose, handlers>>]_vars

\* C14 witness: sendWs was called while the transport had no socket and was
\* waiting for a reconnect timer
C14_Witness ==
  /\ last.op = "sendWs" /\ ws = 0 /\ timers # {} /\ reconnectAttempts > 0
  /\ wrote = <<>> /\ sent = <<>>

\* C15: connectWs() called while the held socket is OPEN or CONNECTING, by a
\* caller or by a reconnect timer, creates no socket and leaves the transport
\* state unchanged: the held socket, the intentional-close flag, the attempt
\* counter, the timer handle and (but for the firing timer itself) the
\* pending timers.
C15_ConnectWhenConnected ==
  [][(/\ last'.op \in {"connectWs", "timer"}
      /\ (IF ws = 0 THEN FALSE ELSE socks[ws] \in {"OPEN", "CONNECTING"}))
       => /\ UNCHANGED <<socks, ws, reconnectTimer, reconnectAttempts, intentionalClose>>
          /\ timers' = IF last'.op = "timer" THEN timers \ {last'.a} ELSE timers]_vars

\* C15 witness: connectWs() was called while the held socket was CONNECTING,
\* a retry had been scheduled and its timer was still pending
C15_Witness ==
  /\ last.op = "connectWs" /\ last.a # 0 /\ ws = last.a
  /\ socks[ws] = "CONNECTING" /\ timers # {} /\ reconnectAttempts > 0

(***************************************************************************)
(* Claims about the dispatcher                                             *)
(***************************************************************************)
\* C10: a handler that throws prevents no handler registered after it (for
\* the kind or the wildcard) from being invoked for the same envelope, and the
\* exception does not escape into the transport's open / receive callbacks.
C10_ThrowIsolated ==
  (last.op \in {"onopen", "onmessage"} /\ last.k \in Kinds)
    => (invoked = handlers[last.k] \o handlers[Wildcard] /\ escaped = "none")

\* the handler functions of the onWs calls q, in call order
HandlersOf(q) == [i \in DOMAIN q |-> q[i].h]

\* C12: dispatching one envelope invokes every handler registered for its
\* kind in registration order, then every wildcard handler in registration
\* order, each exactly once and before the dispatch returns, and no handler
\* registered for another kind (for handlers that return normally and leave
\* the registrations alone).
C12_DispatchOrder ==
  (/\ last.op \in {"onopen", "onmessage"} /\ last.k \in Kinds
   /\ \A i \in DOMAIN (regs[last.k] \o regs[Wildcard]) :
        (regs[last.k] \o regs[Wildcard])[i].h \in PlainHandlers)
    => invoked = HandlersOf(regs[last.k]) \o HandlersOf(regs[Wildcard])

\* C12 witness: two different handlers registered for 'ping', then a wildcard
\* handler, and a handler for another kind; one 'ping' envelope was dispatched
C12_Witness ==
  /\ last.op = "onmessage" /\ last.k = "ping"
  /\ HandlersOf(regs["ping"]) = <<"hLog", "hOk">>
  /\ HandlersOf(regs[Wildcard]) = <<"hLog">>
  /\ regs["presence"] # <<>>
  /\ invoked = <<"hLog", "hOk", "hLog">>

\* C11: when a handler calls an unsubscribe closure during a dispatch, every
\* handler registered for the dispatched kind (or the wildcard) at the start
\* of the dispatch, other than the removed one, is still invoked exactly once
\* in that dispatch; and a handler is invoked in no dispatch that starts
\* after its closure was called.
C11_UnsubscribeDuringDispatch ==
  [][(last'.op \in {"onopen", "onmessage"} /\ last'.k \in Kinds)
       => LET atStart == handlers[last'.k] \o handlers[Wildcard]
              regsAtStart == regs[last'.k] \o regs[Wildcard]
          IN /\ \A h \in OnceHandlers \ {"hOnce"} :
                  Count(h, invoked') = Count(h, atStart)
             /\ Count("hOnce", invoked')
                  <= Count(Registration("hOnce"), regsAtStart)]_vars

\* an onWs call whose unsubscribe closure was never called
NotCalled(r) == r.calls = 0

\* C13: the unsubscribe closure returned by onWs(kind, h) removes exactly the
\* registration that created it and nothing else, also when it is called more
\* than once or when h was registered several times for the kind: at any
\* time the array of a kind holds, in registration order, exactly the
\* registrations whose closure was never called.
C13_UnsubscribeExact ==
  \A k \in HandlerKeys : handlers[k] = HandlersOf(SelectSeq(regs[k], NotCalled))

(***************************************************************************)
(* Claims about the store                                                  *)
(***************************************************************************)
\* C6: with an active channel, a known local user and the transport open,
\* sendChatMessage(text) appends exactly one message (sender the local user,
\* body text) to the rendered list; an inbound 'message' event for the active
\* channel whose senderId is the local user's id leaves the length of the
\* list unchanged.
C6_OptimisticOnce ==
  [][/\ (last'.op = "sendChatMessage" /\ activeChannelId # 0 /\ currentUser # 0
            /\ isWsConnected)
          => messages' = Append(messages,
                                ChatMessage("@" \o Username[currentUser], last'.k, "user", 0))
     /\ (last'.op = "onmessage" /\ last'.k = "message" /\ last'.a = activeChannelId
            /\ currentUser # 0 /\ last'.b = currentUser)
          => Len(messages') = Len(messages)]_vars

\* C6 witness: the echo of the user's own message has been handled while its
\* channel is still active, and the list shows the optimistic entry once
C6_Witness ==
  /\ last.op = "onmessage" /\ last.k = "message"
  /\ activeChannelId # 0 /\ last.a = activeChannelId /\ last.b = currentUser
  /\ Cardinality({i \in DOMAIN messages :
                    messages[i] = ChatMessage("@me", "hello", "user", 0)}) = 1

\* C7: in every interleaving of a channel's history-fetch response with the
\* inbound 'message' events of that channel, the rendered list never shows
\* the same server message twice.
C7_NoDuplicateServerMessage ==
  \A i, j \in DOMAIN messages :
    (i # j /\ messages[i].sid # 0) => messages[i].sid # messages[j].sid

\* C8: the response (success or failure) of the history fetch issued by
\* switchToChannel(A), completing while another channel is active, does not
\* modify the rendered list.
C8_StaleHistoryDiscarded ==
  [][(last'.op = "getMessages.resume" /\ last'.a # activeChannelId)
       => messages' = messages]_vars

\* C9: an inbound 'message' event for a known channel other than the active
\* one increases that channel's unreadCount by exactly 1 and overwrites its
\* lastMessage, and leaves the rendered list and every other channel's
\* unreadCount and lastMessage unchanged.
C9_UnreadBump ==
  [][(/\ last'.op = "onmessage" /\ last'.k = "message"
      /\ last'.a # activeChannelId
      /\ \E i \in DOMAIN channels : channels[i].id = last'.a)
       => /\ messages' = messages
          /\ DOMAIN channels' = DOMAIN channels
          /\ \A i \in DOMAIN channels :
               channels'[i] =
                 IF channels[i].id = last'.a
                   THEN [channels[i] EXCEPT
                           !.unreadCount = @ + 1,
                           !.lastMessage = [content |-> Head(inbox).content,
                                            senderId |-> Head(inbox).senderId]]
                   ELSE channels[i]]_vars

\* C9 witness: 'general' is active and shows its list; a 'message' event for
\* 'dev' has taken dev's unreadCount from 3 to 4
C9_Witness ==
  /\ last.op = "onmessage" /\ last.k = "message" /\ last.a = 2
  /\ activeChannelId = 1 /\ messages # <<>>
  /\ channels[2].name = "dev" /\ channels[2].unreadCount = 4
  /\ channels[2].lastMessage.content = "hello"
  /\ channels[1].unreadCount = 0

\* C16: switchToChannel(B) sets the active channel to B, empties the rendered
\* list and issues exactly one history fetch, for B, all before its await: no
\* entry rendered for the channel that was active remains in the list.
C16_SwitchClears ==
  [][last'.op = "switchToChannel"
       => /\ activeChannelId' = last'.a
          /\ messages' = <<>>
          /\ \E c \in DOMAIN calls' :
               /\ c.kind = "getMessages" /\ c.ch = last'.a /\ c.st = "pending"
               /\ calls' = calls (+) SetToBag({c})]_vars

\* C16 witness: 'general' was active (its history holds a message) and the
\* user has just switched to 'dev'
C16_Witness ==
  /\ last.op = "switchToChannel" /\ last.a = 2 /\ last.b = 1
  /\ activeChannelId = 2 /\ messages = <<>>
  /\ \E i \in DOMAIN srvLog : srvLog[i].channelId = 1
  /\ \E c \in DOMAIN calls : c.kind = "getMessages" /\ c.ch = 2

\* C17: once switchToChannel(ch) has made ch the active channel, the local
\* unreadCount of ch is 0, at the latest when the mark-read call of the switch
\* has succeeded, without a reload of the channel list.
C17_UnreadResetOnSwitch ==
  last.op = "markChannelRead.ok"
    => \A i \in DOMAIN channels :
         channels[i].id = last.a => channels[i].unreadCount = 0

\* an optimistic entry: what sendChatMessage appended for the local user
Optimistic(m) == m.sid = 0 /\ m.type = "user" /\ m.username = "@" \o Username[Self]

\* C18: an optimistic entry stays in the rendered list (as it is, or as the
\* entry of the stored message with its text) until the user switches channel:
\* no send failure and no asynchronous completion, such as a history fetch of
\* the same channel that was in flight when the message was sent, removes it.
C18_OptimisticStays ==
  [][last'.op # "switchToChannel"
       => \A i \in DOMAIN messages :
            Optimistic(messages[i])
              => \E j \in DOMAIN messages' :
                   messages'[j].type = "user" /\ messages'[j].text = messages[i].text]_vars

\* C19: an inbound 'message' event for the active channel whose senderId is
\* not the local user's id appends exactly one entry (the sender's name, the
\* content) to the rendered list and leaves every channel's unreadCount and
\* lastMessage unchanged.
C19_ActiveChannelMessage ==
  [][(/\ last'.op = "onmessage" /\ last'.k = "message"
      /\ activeChannelId # 0 /\ last'.a = activeChannelId
      /\ last'.b # currentUser)
       => /\ Len(messages') = Len(messages) + 1
          /\ SubSeq(messages', 1, Len(messages)) = messages
          /\ messages'[Len(messages')].username = Head(inbox).senderUsername
          /\ messages'[Len(messages')].text = Head(inbox).content
          /\ channels' = channels]_vars

\* C19 witness: 'general' is active, its history is shown, and a message of
\* bob for 'general' has been appended
C19_Witness ==
  /\ last.op = "onmessage" /\ last.k = "message" /\ last.a = 1 /\ last.b = Other
  /\ activeChannelId = 1 /\ Len(messages) >= 2
  /\ messages[Len(messages)] = ChatMessage("bob", "hello", "user", messages[Len(messages)].sid)
  /\ channels[1].unreadCount = 0 /\ channels[1].lastMessage = NoLastMessage

\* C20: when the server's 'connected' event is dispatched, exactly one
\* 'join-channel' frame is sent for each channel of the channel list as it is
\* at that moment, and none for any other channel id.
C20_RejoinOnConnected ==
  (last.op = "onmessage" /\ last.k = "connected")
    => wrote = [i \in DOMAIN channels |-> OutFrame("join-channel", channels[i].id, "")]

\* C20 witness: both channels were known when 'connected' was dispatched, and
\* one frame was written for each
C20_Witness ==
  /\ last.op = "onmessage" /\ last.k = "connected"
  /\ Len(channels) = 2
  /\ wrote = <<OutFrame("join-channel", 1, ""), OutFrame("join-channel", 2, "")>>

\* C21: whenever myRoleInChannel is non-null it is the local user's role in
\* the channel that is active: the member list it is derived from was fetched
\* for the active channel, whatever the order of the switchToChannel and
\* loadChannelMembers calls and of their responses.
C21_RoleOfActiveChannel ==
  myRoleInChannel # ""
    => (membersOf = activeChannelId /\ myRoleInChannel = ServerRole(activeChannelId, Self))

\* C22: with an active channel and the transport not open, sendChatMessage
\* appends the optimistic message, writes nothing to the socket and issues
\* exactly one api.sendMessage call; when that call fails for the channel that
\* is active, exactly one system notice is appended and the optimistic message
\* is still in the list; when it succeeds nothing is appended.
C22_OfflineSend ==
  [][/\ (last'.op = "sendChatMessage" /\ activeChannelId # 0 /\ ~isWsConnected)
          => /\ messages' = Append(messages,
                     ChatMessage("@" \o Username[currentUser], last'.k, "user", 0))
             /\ wrote' = <<>> /\ sent' = sent
             /\ calls' = calls (+) SetToBag({Call("sendMessage", activeChannelId, last'.k)})
     /\ (last'.op = "sendMessage.fail" /\ last'.a = activeChannelId)
          => /\ messages' = Append(messages,
                     ChatMessage("", "system: Failed to send", "system", 0))
             /\ \E i \in DOMAIN messages' : Optimistic(messages'[i])
     /\ last'.op = "sendMessage.ok" => messages' = messages]_vars

\* C23: with no active channel, sendChatMessage appends exactly one system
\* notice and no optimistic message, writes nothing to the socket and issues no
\* api call.
C23_NoChannelNotice ==
  [][(last'.op = "sendChatMessage" /\ activeChannelId = 0)
       => /\ messages' = Append(messages,
                  ChatMessage("", "system: No channel selected. Use /join <channel> or pick one from sidebar.",
                              "system", 0))
          /\ wrote' = <<>> /\ sent' = sent /\ calls' = calls]_vars

\* C23 witness: sendChatMessage has run with no channel active and the list
\* ends with its notice
C23_Witness ==
  /\ last.op = "sendChatMessage" /\ last.a = 0 /\ activeChannelId = 0
  /\ messages[Len(messages)].type = "system"
  /\ \A i \in DOMAIN messages : ~Optimistic(messages[i])
  /\ calls = EmptyBag /\ sent = <<>>

\* the handlers of q that a forEach over q calls when a throwing handler ends
\* the loop: those up to and including the first "hThrow"
RECURSIVE UpToThrow(_)
UpToThrow(q) ==
  IF q = <<>> THEN <<>>
  ELSE IF Head(q) = "hThrow" THEN <<"hThrow">>
  ELSE <<Head(q)>> \o UpToThrow(Tail(q))

\* C24: an inbound frame that fails to parse invokes no handler, changes no
\* transport or store state, does not close the connection and lets no error
\* out of the callback; the frame that arrives next is dispatched as usual,
\* starting with the first handler registered for it.
C24_BadFrameDropped ==
  [][/\ (last'.op = "onmessage" /\ last'.k = "bad")
          => /\ invoked' = <<>> /\ escaped' = "none" /\ wrote' = <<>> /\ issued' = <<>>
             /\ UNCHANGED <<socks, ws, reconnectTimer, timers, reconnectAttempts,
                            intentionalClose, handlers, regs, storeVars, sent>>
     /\ (last.op = "onmessage" /\ last.k = "bad" /\ last'.op = "onmessage" /\ last'.k = "ping")
          => invoked' = UpToThrow(handlers["ping"] \o handlers[Wildcard])]_vars

\* C24 witness: a frame that is not JSON was received on the open socket
\* while handlers for 'ping' and for the wildcard were registered
C24_Witness ==
  /\ last.op = "onmessage" /\ last.k = "bad"
  /\ ws # 0 /\ socks[ws] = "OPEN"
  /\ handlers["ping"] # <<>> /\ handlers[Wildcard] # <<>>
  /\ invoked = <<>>

\* C25: an inbound frame that parses but carries no type invokes no handler
\* at all, neither one registered for a kind nor a wildcard handler.
C25_TypelessFrameDropped ==
  (last.op = "onmessage" /\ last.k = "") => invoked = <<>>

\* C26: every socket open sets the reconnect-attempt counter to 0 and
\* dispatches one 'presence' envelope with status 'connected': with the store
\* handlers registered, the open appends exactly one "connected" system notice
\* and issues one api.updateMe call, and the failure of that call changes no
\* state.
C26_OpenAnnounced ==
  [][/\ last'.op = "onopen"
          => /\ reconnectAttempts' = 0
             /\ wsSetup => /\ invoked' = <<"store:presence">>
                            /\ messages' = Append(messages,
                                    ChatMessage("", "system: connected to mesh", "system", 0))
                            /\ issued' = <<Call("updateMe", 0, "online")>>
                            /\ calls' = calls (+) SetToBag({Call("updateMe", 0, "online")})
     /\ last'.op = "updateMe.fail"
          => UNCHANGED <<transportVars, handlers, regs, currentUser, wsSetup, channels,
                         activeChannelId, messages, allUsers, memberVars, sent>>]_vars

\* C26 witness: the socket of a retry has opened: the counter is back at 0
\* and the list ends with the notice
C26_Witness ==
  /\ last.op = "onopen" /\ last.a > 1 /\ reconnectAttempts = 0
  /\ messages[Len(messages)] = ChatMessage("", "system: connected to mesh", "system", 0)
  /\ Call("updateMe", 0, "online") \in DOMAIN calls

\* C27: however many times initApp() is called, each store handler is
\* registered exactly once, so one inbound 'message' event for a channel that
\* is not active adds one to that channel's unreadCount, not one per call.
C27_RegisteredOnce ==
  [][/\ last'.op = "initApp"
          => \A i \in DOMAIN StoreKinds :
               handlers'[StoreKinds[i]] = <<StoreHandler[StoreKinds[i]]>>
     /\ (last'.op = "onmessage" /\ last'.k = "message" /\ last'.a # activeChannelId)
          => \A i \in DOMAIN channels :
               channels'[i].unreadCount =
                 channels[i].unreadCount + IF channels[i].id = last'.a THEN 1 ELSE 0]_vars

\* the channel of the list with id
ChannelOf(id) == channels[CHOOSE i \in DOMAIN channels : channels[i].id = id]

\* C28: when the history fetch of switchToChannel succeeds for the channel
\* that is active, the rendered list is exactly one system notice naming the
\* channel followed by the fetched page in reverse of the order returned
\* (oldest first); when it fails, the list is exactly that notice followed by
\* one failure notice.
C28_HistoryRendered ==
  [][(last'.op = "getMessages.resume" /\ last'.a = activeChannelId)
       => \E c \in DOMAIN calls :
            /\ c.kind = "getMessages" /\ c.ch = last'.a /\ c.st = last'.k
            /\ calls' = calls (-) SetToBag({c})
            /\ messages'[1] = ChatMessage("", "system: switched to " \o DisplayName(ChannelOf(c.ch)),
                                          "system", 0)
            /\ IF c.st = "ok"
                 THEN /\ Len(messages') = 1 + Len(c.resp)
                      /\ \A i \in DOMAIN c.resp :
                           messages'[1 + i] =
                             ChatMessage(c.resp[Len(c.resp) + 1 - i].senderUsername,
                                         c.resp[Len(c.resp) + 1 - i].content, "user",
                                         c.resp[Len(c.resp) + 1 - i].id)
                      /\ \A i, j \in 2..Len(messages') :
                           i < j => messages'[i].sid < messages'[j].sid
                 ELSE /\ Len(messages') = 2
                      /\ messages'[2] = ChatMessage("", "system: Failed to load messages",
                                                    "system", 0)]_vars

\* C28 witness: a page of two messages was rendered for the active channel,
\* the older one first
C28_Witness ==
  /\ last.op = "getMessages.resume" /\ last.k = "ok" /\ last.a = activeChannelId
  /\ Len(messages) = 3 /\ messages[1].type = "system"
  /\ messages[2].sid = 1 /\ messages[3].sid = 2

\* C29: a failed loadChannels() or loadUsers() appends exactly one system
\* notice, leaves the held channel list and user list unchanged, issues no
\* further call, and a load that completes next still installs its result.
C29_LoadFailure ==
  [][/\ last'.op = "loadChannels.fail"
          => /\ messages' = Append(messages,
                     ChatMessage("", "system: Failed to load channels", "system", 0))
             /\ channels' = channels /\ allUsers' = allUsers
             /\ calls' = calls (-) SetToBag({Call("loadChannels", 0, "")})
     /\ last'.op = "loadUsers.fail"
          => /\ messages' = Append(messages,
                     ChatMessage("", "system: Failed to load users", "system", 0))
             /\ channels' = channels /\ allUsers' = allUsers
             /\ calls' = calls (-) SetToBag({Call("loadUsers", 0, "")})
     /\ (last.op \in {"loadChannels.fail", "loadUsers.fail"} /\ last'.op = "loadUsers.ok")
          => allUsers' = ServerUsers
     /\ (last.op \in {"loadChannels.fail", "loadUsers.fail"} /\ last'.op = "loadChannels.ok")
          => channels' = MergeChannels(ServerChans, ServerDms)]_vars

\* C29 witness: loadUsers has failed while the held user list differed from
\* the server's listing; the list is still held and the notice is the last
\* entry
C29_Witness ==
  /\ last.op = "loadUsers.fail"
  /\ allUsers # <<>> /\ allUsers # ServerUsers
  /\ messages[Len(messages)] = ChatMessage("", "system: Failed to load users", "system", 0)

\* C30: a 'status-changed' event sets the status of the user whose id is the
\* event's userId to the event's status and leaves every other user and all
\* other state unchanged; when no user of the list has that id, the list is
\* unchanged.
C30_StatusChanged ==
  [][(last'.op = "onmessage" /\ last'.k = "status-changed")
       => /\ DOMAIN allUsers' = DOMAIN allUsers
          /\ \A i \in DOMAIN allUsers :
               /\ allUsers'[i].id = allUsers[i].id
               /\ allUsers'[i].status = IF allUsers[i].id = Head(inbox).userId
                                          THEN Head(inbox).status
                                          ELSE allUsers[i].status
          /\ UNCHANGED <<transportVars, handlers, regs, currentUser, wsSetup, channels,
                         activeChannelId, messages, calls, memberVars, sent>>]_vars

\* C30 witness: the event for the other user was handled: that user is idle
\* and the local user's entry is as it was
C30_Witness ==
  /\ last.op = "onmessage" /\ last.k = "status-changed"
  /\ allUsers = <<[id |-> Self, status |-> "online"], [id |-> Other, status |-> "idle"]>>

\* C31: a 'user-joined' or 'user-left' event appends exactly one system notice
\* when its channelId is the active channel and otherwise changes nothing; in
\* both cases no channel's unreadCount or lastMessage changes.
C31_MembershipNotice ==
  [][(last'.op = "onmessage" /\ last'.k \in {"user-joined", "user-left"})
       => /\ IF Head(inbox).channelId = activeChannelId
               THEN /\ Len(messages') = Len(messages) + 1
                    /\ SubSeq(messages', 1, Len(messages)) = messages
                    /\ messages'[Len(messages')].type = "system"
                    /\ messages'[Len(messages')].text =
                         IF last'.k = "user-left" THEN "system: user left"
                         ELSE "system: @" \o (IF Head(inbox).username # ""
                                                THEN Head(inbox).username ELSE "unknown")
                                          \o " joined"
               ELSE messages' = messages
          /\ channels' = channels
          /\ UNCHANGED <<transportVars, handlers, regs, currentUser, wsSetup, activeChannelId,
                         allUsers, calls, memberVars, sent>>]_vars

\* C31 witness: bob's joining the active channel was announced
C31_Witness ==
  /\ last.op = "onmessage" /\ last.k = "user-joined"
  /\ activeChannelId # 0 /\ last.a = activeChannelId
  /\ messages[Len(messages)] = ChatMessage("", "system: @bob joined", "system", 0)

\* C32: every 'channel_update' event issues one loadChannels() reload and
\* changes nothing of the channel list (or of any other state) at the time
\* the event is handled.
C32_ChannelUpdateReloads ==
  [][(last'.op = "onmessage" /\ last'.k = "channel_update")
       => /\ calls' = calls (+) SetToBag({Call("loadChannels", 0, "")})
          /\ channels' = channels
          /\ UNCHANGED <<transportVars, handlers, regs, currentUser, wsSetup, activeChannelId,
                         messages, allUsers, memberVars, sent>>]_vars

\* C32 witness: a 'channel_update' event was handled while the channel list
\* was held, and the reload is in flight
C32_Witness ==
  /\ last.op = "onmessage" /\ last.k = "channel_update"
  /\ channels # <<>>
  /\ Call("loadChannels", 0, "") \in DOMAIN calls

\* C33: within one connection inbound frames are handled in arrival order,
\* and all handlers of one frame have run when its dispatch returns, before
\* the next frame is taken: the frame handled is the oldest on the wire, and a
\* message of another user for the active channel is appended after every
\* entry appended for an earlier frame.
C33_ArrivalOrder ==
  [][(last'.op = "onmessage" /\ last'.k = "message")
       => /\ invoked' = handlers["message"] \o handlers[Wildcard]
          /\ inbox' = Tail(inbox)
          /\ \A k \in DOMAIN inbox' :
               inbox'[k].type = "message" => inbox'[k].sid > Head(inbox).sid
          /\ (Head(inbox).channelId = activeChannelId /\ Head(inbox).senderId # currentUser)
               => /\ SubSeq(messages', 1, Len(messages)) = messages
                  /\ Len(messages') = Len(messages) + 1
                  /\ messages'[Len(messages')].sid = Head(inbox).sid]_vars

\* C33 witness: two messages of the other user arrived for the active channel
\* before its history did, and the list shows them in the order of arrival
C33_Witness ==
  /\ last.op = "onmessage" /\ last.k = "message" /\ last.a = activeChannelId
  /\ Len(messages) = 2 /\ messages[1].sid = 1 /\ messages[2].sid = 2
  /\ messages[1].username = "bob" /\ messages[2].username = "bob"

\* C34: once the server's 'connected' event was received and the initial
\* channel-list load has completed, in whichever order, a 'join-channel'
\* frame has been written on the current connection for every channel of the
\* channel list: the step that completes the pair writes them.  (The second
\* conjunct is the connection opened at startup, 'connected' handled while
\* the list was still empty, so that nothing was written for it before.)
C34_JoinedAfterStartup ==
  [][/\ (last'.op = "onmessage" /\ last'.k = "connected" /\ channels # <<>>)
          => \A i \in DOMAIN channels :
               \E k \in DOMAIN wrote' : wrote'[k] = OutFrame("join-channel", channels[i].id, "")
     /\ (/\ last'.op = "loadChannels.ok" /\ channels = <<>>
         /\ Len(socks) = 1 /\ socks[1] = "OPEN" /\ inbox = <<>>)
          => \A i \in DOMAIN channels' :
               \E k \in DOMAIN wrote' : wrote'[k] = OutFrame("join-channel", channels'[i].id, "")]_vars

\* C35 (its first half): an unread increment applied by a 'message' event
\* while a loadChannels() request is in flight is not lost when the response
\* of that request replaces the channel list: with no channel being read, no
\* channel's unreadCount is lower after the replacement than before.
C35_UnreadSurvivesReload ==
  [][last'.op = "loadChannels.resume"
       => \A i \in DOMAIN channels : \A j \in DOMAIN channels' :
            channels'[j].id = channels[i].id
              => channels'[j].unreadCount >= channels[i].unreadCount]_vars

\* C36: a user's status set by a 'status-changed' event is not reverted by a
\* user-list response whose request was issued before the event: when no
\* loadUsers() call is in flight and every event has been handled, each
\* user's status is the most recent one the client was told, which is the
\* server's.
C36_StatusNotReverted ==
  (inbox = <<>> /\ calls = EmptyBag) => allUsers = srvUsers

\* C37: at most one reconnect timer is pending at any time, and a reconnect
\* timer is pending only while the transport has no OPEN or CONNECTING
\* socket, after any interleaving of connectWs() calls, close events and
\* timer firings.
C37_OneTimerWhileDown ==
  /\ Cardinality(timers) <= 1
  /\ timers # {} => \A s \in DOMAIN socks : socks[s] \notin {"OPEN", "CONNECTING"}

IdsOf(q) == {q[i].id : i \in DOMAIN q}

\* C39: after every successful loadChannels() the channel list has no two
\* entries with the same id and has every id returned by the channel listing
\* or the DM listing, each exactly once; for an id in both, the entry is the
\* one of the channel listing.
C39_MergedOnce ==
  [][last'.op = "loadChannels.merge"
       => \E c \in DOMAIN calls :
            /\ c.st = "ok" /\ calls' = calls (-) SetToBag({c})
            /\ \A i, j \in DOMAIN channels' : i # j => channels'[i].id # channels'[j].id
            /\ IdsOf(channels') = IdsOf(c.resp.chans) \cup IdsOf(c.resp.dms)
            /\ \A i \in DOMAIN channels' :
                 channels'[i].name = IF channels'[i].id \in IdsOf(c.resp.chans)
                                       THEN "listed" ELSE "direct"]_vars

\* C39 witness: the merged list has an entry of the channel listing whose id
\* was also in the DM listing (it has that entry's recipient), and an entry
\* of the DM listing
C39_Witness ==
  /\ last.op = "loadChannels.merge" /\ Len(channels) = 2
  /\ \E i, j \in DOMAIN channels :
       /\ channels[i].name = "listed" /\ channels[i].type = "dm" /\ channels[i].recipient = "bob"
       /\ channels[j].name = "direct"

====
